---- MODULE Spec2Model ----
(***************************************************************************)
(* A model of the PyChip8 interpreter (src/chip8/Chip8CPU.py) and of the   *)
(* display it draws on (src/Chip8Display.py).                              *)
(*                                                                         *)
(* The machine is the Python object `self`: a record with the fields the   *)
(* constructor creates.  Every opcode handler is an operator from the      *)
(* record before the call to the record after it.  A Python exception is   *)
(* the field exc: a handler that raises returns the record as the          *)
(* statements before the raise left it, with exc naming the exception.     *)
(***************************************************************************)
EXTENDS Integers, Sequences, FiniteSets, TLC

VARIABLES memory, registers, stack, timers, display, exc, pos, keys_pressed,
          last_opcode, cycles,
          now, clock_ticks, timer_ticks, loop, debugger, cycle_gap, resumed

\* What main_loop and the debugger add to the machine: the monotonic clock
\* of pygame.time.get_ticks (now), the reference ticks of the two gates, the
\* statement of main_loop that runs next (loop), the Chip8Debugger object,
\* and two records of the run: the milliseconds gone by since the last
\* instruction was executed, counted up to CLOCK_SPEED (cycle_gap; -1 before
\* the first instruction), and the command that last resumed the machine
\* from the debugger's prompt, with the line the operator typed last
\* (resumed).
hostvars == <<now, clock_ticks, timer_ticks, loop, debugger, cycle_gap,
              resumed>>

vars == <<memory, registers, stack, timers, display, exc, pos, keys_pressed,
          last_opcode, cycles, now, clock_ticks, timer_ticks, loop, debugger,
          cycle_gap, resumed>>

(***************************************************************************)
(* config.py                                                               *)
(***************************************************************************)
STACK_SIZE == 16
MEMORY_SIZE == 4096
NUM_REGISTERS == 16
START_ADDR == 512
DISPLAY_WIDTH == 64
DISPLAY_HEIGHT == 32
FONT_ADDR_START == 0

\* Chip8Display.__init__'s default scale: one logical pixel is a
\* SCALE x SCALE block of the surface.
SCALE == 10

\* The glyph table load_fontset writes: 16 glyphs of 5 bytes.
FONT_SET ==
  << 240, 144, 144, 144, 240,
      32,  96,  32,  32, 112,
     240,  16, 240, 128, 240,
     240,  16, 240,  16, 240,
     144, 144, 240,  16,  16,
     240, 128, 240,  16, 240,
     240, 128, 240, 144, 240,
     240,  16,  32,  64,  64,
     240, 144, 240, 144, 240,
     240, 144, 240,  16, 240,
     240, 144, 240, 144, 144,
     224, 144, 224, 144, 224,
     240, 128, 128, 128, 240,
     224, 144, 144, 144, 224,
     240, 128, 240, 128, 240,
     240, 128, 240, 128, 128 >>

\* Logical key index -> host key code (pygame.K_1 .. pygame.K_v are the
\* ASCII codes of the characters).
KEY_MAPPINGS ==
  [k \in 0..15 |->
     CASE k = 1  -> 49  [] k = 2  -> 50  [] k = 3  -> 51  [] k = 12 -> 52
       [] k = 4  -> 113 [] k = 5  -> 119 [] k = 6  -> 101 [] k = 13 -> 114
       [] k = 7  -> 97  [] k = 8  -> 115 [] k = 9  -> 100 [] k = 14 -> 102
       [] k = 10 -> 122 [] k = 0  -> 120 [] k = 11 -> 99  [] k = 15 -> 118]

KeyCodes == {KEY_MAPPINGS[k] : k \in 0..15}

(***************************************************************************)
(* Python's integer operators on non-negative integers.                    *)
(***************************************************************************)
RECURSIVE BitAnd(_, _)
BitAnd(a, b) ==
  IF a = 0 \/ b = 0 THEN 0
  ELSE (a % 2) * (b % 2) + 2 * BitAnd(a \div 2, b \div 2)

RECURSIVE BitOr(_, _)
BitOr(a, b) ==
  IF a = 0 THEN b
  ELSE IF b = 0 THEN a
  ELSE (IF a % 2 = 1 \/ b % 2 = 1 THEN 1 ELSE 0) + 2 * BitOr(a \div 2, b \div 2)

RECURSIVE BitXor(_, _)
BitXor(a, b) ==
  IF a = 0 THEN b
  ELSE IF b = 0 THEN a
  ELSE (((a % 2) + (b % 2)) % 2) + 2 * BitXor(a \div 2, b \div 2)

ShiftLeft(a, k) == a * 2^k

ShiftRight(a, k) == a \div 2^k

(***************************************************************************)
(* Python's list indexing: a list of length len takes the indices          *)
(* -len .. len - 1, a negative index counting from the end; any other      *)
(* index raises IndexError.                                                *)
(***************************************************************************)
IndexOk(k, len) == -len <= k /\ k < len

ListPos(k, len) == IF k < 0 THEN k + len ELSE k

\* Python's slice bound: clamped into 0 .. len.
SliceBound(k, len) ==
  IF k < 0 THEN (IF k + len < 0 THEN 0 ELSE k + len)
  ELSE (IF k > len THEN len ELSE k)

Raise(self, e) == [self EXCEPT !.exc = e]

(***************************************************************************)
(* self.memory is a list of MEMORY_SIZE cells.  The model keeps the cells  *)
(* that are not 0, as a function from their addresses: MemAt reads a cell  *)
(* and MemPut writes one, for every address in 0 .. MEMORY_SIZE - 1.       *)
(***************************************************************************)
MemAt(mem, a) == IF a \in DOMAIN mem THEN mem[a] ELSE 0

MemPut(mem, a, value) ==
  IF value = 0 THEN [x \in DOMAIN mem \ {a} |-> mem[x]]
  ELSE [x \in DOMAIN mem \cup {a} |-> IF x = a THEN value ELSE mem[x]]

\* memory[a:b] as a sequence, for a memory of len cells.
ListSlice(mem, len, a, b) ==
  LET lo == SliceBound(a, len)
      hi == SliceBound(b, len)
  IN  [j \in 1..(IF hi > lo THEN hi - lo ELSE 0) |-> MemAt(mem, lo + j - 1)]

Ok(self) == self.exc = "none"

(***************************************************************************)
(* The machine's state as the object `self`.                               *)
(***************************************************************************)
Self ==
  [memory |-> memory, registers |-> registers, stack |-> stack,
   timers |-> timers, display |-> display, exc |-> exc]

\* load_memory: validate_data_size, then the copy.
\* A variant of validate_data_size that rejects data that fits exactly.
validate_data_size_strict(start_addr, data) ==
  IF Len(data) >= MEMORY_SIZE - start_addr THEN "DataTooLarge" ELSE "none"

validate_data_size(start_addr, data) ==
  IF Len(data) > MEMORY_SIZE - start_addr THEN "DataTooLarge" ELSE "none"

load_memory(self, start_addr, data) ==
  IF validate_data_size(start_addr, data) # "none"
  THEN Raise(self, validate_data_size(start_addr, data))
  ELSE LET written == start_addr..(start_addr + Len(data) - 1)
           nonzero == {a \in written : data[a - start_addr + 1] # 0}
       IN  [self EXCEPT !.memory =
              [a \in (DOMAIN self.memory \ written) \cup nonzero |->
                 IF a \in written THEN data[a - start_addr + 1]
                 ELSE self.memory[a]]]

load_fontset(self) == load_memory(self, FONT_ADDR_START, FONT_SET)

\* Chip8CPU.__init__, up to load_fontset.
Constructed ==
  load_fontset(
    [memory    |-> [a \in {} |-> 0],
     registers |-> [v |-> [r \in 0..(NUM_REGISTERS - 1) |-> 0],
                    i |-> 0, sp |-> 0, pc |-> START_ADDR],
     stack     |-> [k \in 0..(STACK_SIZE - 1) |-> 0],
     timers    |-> [delay |-> 0, sound |-> 0],
     display   |-> [present |-> FALSE, width |-> DISPLAY_WIDTH,
                    height |-> DISPLAY_HEIGHT, surface |-> {}],
     exc       |-> "none"])

\* load_rom: the file's bytes go to START_ADDR.
load_rom(self, rom_data) == load_memory(self, START_ADDR, rom_data)

\* create_display: the display object and its surface, cleared.  present
\* is FALSE while self.display is None.
create_display(self) ==
  IF self.display.present THEN self
  ELSE [self EXCEPT !.display = [present |-> TRUE, width |-> DISPLAY_WIDTH,
                                 height |-> DISPLAY_HEIGHT, surface |-> {}]]

(***************************************************************************)
(* Fetch and decode.                                                       *)
(***************************************************************************)
fetch_opcode(self) ==
  ListSlice(self.memory, MEMORY_SIZE, self.registers.pc, self.registers.pc + 2)

\* The slice is shorter than two bytes when pc is past the last cell but
\* one: opcode[0] or opcode[1] then raises IndexError.
DecodeOk(opcode) == Len(opcode) >= 2

get_opcode_nibble_dict(opcode) ==
  LET combined_opcode == BitAnd(BitOr(ShiftLeft(opcode[1], 8), opcode[2]), 65535)
  IN  [all             |-> combined_opcode,
       first_nibble    |-> ShiftRight(BitAnd(combined_opcode, 61440), 12),
       second_nibble   |-> ShiftRight(BitAnd(combined_opcode, 3840), 8),
       third_nibble    |-> ShiftRight(BitAnd(combined_opcode, 240), 4),
       fourth_nibble   |-> BitAnd(combined_opcode, 15),
       last_three_bits |-> BitAnd(combined_opcode, 4095),
       last_byte       |-> BitAnd(combined_opcode, 255)]

(***************************************************************************)
(* Opcode functions.  V(self, k) is self.registers["v"][k].                *)
(***************************************************************************)
V(self, k) == self.registers.v[k]

SetV(self, k, value) == [self EXCEPT !.registers.v[k] = value]

SetPC(self, value) == [self EXCEPT !.registers.pc = value]

\* Chip8Display.clear_display: fill the surface with the background.
\* A variant of clear_display that updates the window without filling the
\* surface.
clear_display_update_only(disp) == disp

clear_display(disp) == [disp EXCEPT !.surface = {}]

\* 00E0 - CLS.  self.display is None until create_display has run.
clear_screen(self) ==
  IF ~self.display.present THEN Raise(self, "AttributeError")
  ELSE [self EXCEPT !.display = clear_display(self.display)]

\* 00EE - RET
return_from_subrtn(self) ==
  LET sp == self.registers.sp
  IN  IF ~IndexOk(sp, STACK_SIZE) THEN Raise(self, "IndexError")
      ELSE [self EXCEPT !.registers.pc = self.stack[ListPos(sp, STACK_SIZE)],
                        !.stack[ListPos(sp, STACK_SIZE)] = 0,
                        !.registers.sp = sp - 1]

\* A variant of jump_addr that stores the target itself.
jump_addr_direct(self, n) == SetPC(self, n.last_three_bits)

\* 1nnn - JP addr
jump_addr(self, n) == SetPC(self, n.last_three_bits - 2)

\* A variant of call_addr that stores at the old sp and increments after.
call_addr_store_first(self, n) ==
  LET sp == self.registers.sp
  IN  IF ~IndexOk(sp, STACK_SIZE) THEN Raise(self, "IndexError")
      ELSE [self EXCEPT !.stack[ListPos(sp, STACK_SIZE)] = self.registers.pc,
                        !.registers.sp = sp + 1,
                        !.registers.pc = n.last_three_bits - 2]

\* 2nnn - CALL addr.  sp is incremented before the store that may raise.
call_addr(self, n) ==
  LET sp   == self.registers.sp + 1
      self1 == [self EXCEPT !.registers.sp = sp]
  IN  IF ~IndexOk(sp, STACK_SIZE) THEN Raise(self1, "IndexError")
      ELSE [self1 EXCEPT !.stack[ListPos(sp, STACK_SIZE)] = self.registers.pc,
                         !.registers.pc = n.last_three_bits - 2]

\* 3xkk - SE Vx, byte
skip_reg_eq_byte(self, n) ==
  IF V(self, n.second_nibble) = n.last_byte
  THEN SetPC(self, self.registers.pc + 2) ELSE self

\* 4xkk - SNE Vx, byte
skip_reg_neq_byte(self, n) ==
  IF V(self, n.second_nibble) # n.last_byte
  THEN SetPC(self, self.registers.pc + 2) ELSE self

\* A variant of skip_reg_eq_reg with the test inverted.
skip_reg_eq_reg_inverted(self, n) ==
  IF V(self, n.second_nibble) # V(self, n.third_nibble)
  THEN SetPC(self, self.registers.pc + 2) ELSE self

\* 5xy0 - SE Vx, Vy
skip_reg_eq_reg(self, n) ==
  IF V(self, n.second_nibble) = V(self, n.third_nibble)
  THEN SetPC(self, self.registers.pc + 2) ELSE self

\* 6xkk - LD Vx, byte
ld_to_reg(self, n) == SetV(self, n.second_nibble, n.last_byte)

\* A variant of add_byte_to_reg that stores the sum as it is.
add_byte_to_reg_unwrapped(self, n) ==
  SetV(self, n.second_nibble, V(self, n.second_nibble) + n.last_byte)

\* 7xkk - ADD Vx, byte
add_byte_to_reg(self, n) ==
  LET temp == V(self, n.second_nibble) + n.last_byte
  IN  SetV(self, n.second_nibble, IF temp > 255 THEN temp - 256 ELSE temp)

\* 8xy0 - LD Vx, Vy
ld_reg_to_reg(self, n) == SetV(self, n.second_nibble, V(self, n.third_nibble))

\* 8xy1 - OR Vx, Vy
or_regs(self, n) ==
  SetV(self, n.second_nibble,
       BitOr(V(self, n.second_nibble), V(self, n.third_nibble)))

\* 8xy2 - AND Vx, Vy
and_regs(self, n) ==
  SetV(self, n.second_nibble,
       BitAnd(V(self, n.second_nibble), V(self, n.third_nibble)))

\* 8xy3 - XOR Vx, Vy
xor_regs(self, n) ==
  SetV(self, n.second_nibble,
       BitXor(V(self, n.second_nibble), V(self, n.third_nibble)))

\* A variant of add_regs whose carry test is off by one.
add_regs_carry_late(self, n) ==
  LET sum   == V(self, n.second_nibble) + V(self, n.third_nibble)
      carry == sum > 256
  IN  SetV(SetV(self, n.second_nibble, BitAnd(sum, 255)),
           15, IF carry THEN 1 ELSE 0)

\* A variant of add_regs that masks the sum to seven bits.
add_regs_narrow(self, n) ==
  LET sum   == V(self, n.second_nibble) + V(self, n.third_nibble)
      carry == sum > 255
  IN  SetV(SetV(self, n.second_nibble, BitAnd(sum, 127)),
           15, IF carry THEN 1 ELSE 0)

\* 8xy4 - ADD Vx, Vy.  Vx is stored first, VF after it.
add_regs(self, n) ==
  LET second_nibble == V(self, n.second_nibble)
      third_nibble  == V(self, n.third_nibble)
      sum   == second_nibble + third_nibble
      carry == sum > 255
      temp  == BitAnd(IF carry THEN sum - 256 ELSE sum, 255)
  IN  SetV(SetV(self, n.second_nibble, temp), 15, IF carry THEN 1 ELSE 0)

\* 8xy5 - SUB Vx, Vy.  The test is a strict `>`.
sub_regs(self, n) ==
  LET second_nibble == V(self, n.second_nibble)
      third_nibble  == V(self, n.third_nibble)
      borrow == ~(second_nibble > third_nibble)
      diff   == IF second_nibble > third_nibble
                THEN second_nibble - third_nibble
                ELSE 256 + second_nibble - third_nibble
  IN  SetV(SetV(self, n.second_nibble, BitAnd(diff, 255)),
           15, IF borrow THEN 0 ELSE 1)

\* 8xy6 - SHR Vx.  VF is stored first, Vx after it.
right_shift_reg(self, n) ==
  LET self1 == SetV(self, 15, BitAnd(V(self, n.second_nibble), 1))
  IN  SetV(self1, n.second_nibble,
           BitAnd(ShiftRight(V(self1, n.second_nibble), 1), 255))

\* 8xy7 - SUBN Vx, Vy.  The test is a strict `>`.
reverse_sub_regs(self, n) ==
  LET second_nibble == V(self, n.second_nibble)
      third_nibble  == V(self, n.third_nibble)
      borrow == ~(third_nibble > second_nibble)
      diff   == IF third_nibble > second_nibble
                THEN third_nibble - second_nibble
                ELSE 256 + third_nibble - second_nibble
  IN  SetV(SetV(self, n.second_nibble, BitAnd(diff, 255)),
           15, IF borrow THEN 0 ELSE 1)

\* A variant of left_shift_reg that takes the flag from bit 0.
left_shift_reg_low_bit(self, n) ==
  LET self1 == SetV(self, 15, BitAnd(V(self, n.second_nibble), 1))
  IN  SetV(self1, n.second_nibble,
           BitAnd(ShiftLeft(V(self1, n.second_nibble), 1), 255))

\* 8xyE - SHL Vx.  VF is stored first, Vx after it.
left_shift_reg(self, n) ==
  LET self1 == SetV(self, 15, ShiftRight(BitAnd(V(self, n.second_nibble), 128), 7))
  IN  SetV(self1, n.second_nibble,
           BitAnd(ShiftLeft(V(self1, n.second_nibble), 1), 255))

\* 9xy0 - SNE Vx, Vy
skip_reg_neq_reg(self, n) ==
  IF V(self, n.second_nibble) # V(self, n.third_nibble)
  THEN SetPC(self, self.registers.pc + 2) ELSE self

\* Annn - LD I, addr
ld_i(self, n) == [self EXCEPT !.registers.i = n.last_three_bits]

\* Bnnn - JP V0, addr.  Defined by the class; see first_nibble_lookup for
\* what the dispatch table registers under 0xB.
jmp_reg0_with_byte(self, n) ==
  SetPC(self, BitAnd(n.last_three_bits + V(self, 0), 65535) - 2)

\* Cxkk - RND Vx, byte.  rnd is what random.randint(0, 255) returns.
store_rnd_anded_byte_to_reg(self, n, rnd) ==
  SetV(self, n.second_nibble, BitAnd(rnd, n.last_byte))

(***************************************************************************)
(* The display.  Every write to the surface fills one SCALE x SCALE block  *)
(* aligned on the block grid, so the surface is the set of blocks that     *)
(* hold the main colour; surface pixel (px, py) lies in block              *)
(* (px div SCALE, py div SCALE).                                           *)
(***************************************************************************)
\* is_drawn_pixel_present: get_at((x_pos, y_pos)) reads the surface pixel
\* with these coordinates.
is_drawn_pixel_present(disp, x_pos, y_pos) ==
  <<x_pos \div SCALE, y_pos \div SCALE>> \in disp.surface

is_bit_set(byte, index) == BitAnd(byte, ShiftLeft(1, 7 - index)) # 0

\* draw_pixel: the display after it, and the value returned.
draw_pixel(disp, x_pos, y_pos) ==
  LET overwrite == is_drawn_pixel_present(disp, x_pos, y_pos)
  IN  [display |-> [disp EXCEPT !.surface =
                      IF ~overwrite THEN @ \cup {<<x_pos, y_pos>>}
                      ELSE @ \ {<<x_pos, y_pos>>}],
       ret     |-> overwrite]

\* The loop of draw_byte from bit index i on.
RECURSIVE draw_byte_from(_, _, _, _, _, _)
draw_byte_from(disp, x_pos, y_pos, byte, i, overwritten) ==
  IF i > 7 THEN [display |-> disp, ret |-> overwritten]
  ELSE IF is_bit_set(byte, i)
       THEN LET r == draw_pixel(disp, (x_pos + i) % disp.width,
                                y_pos % disp.height)
            IN  draw_byte_from(r.display, x_pos, y_pos, byte, i + 1,
                               overwritten \/ r.ret)
       ELSE draw_byte_from(disp, x_pos, y_pos, byte, i + 1, overwritten)

draw_byte(disp, x_pos, y_pos, byte) ==
  draw_byte_from(disp, x_pos, y_pos, byte, 0, FALSE)

\* A variant of the loop of draw_bytes that keeps the report of the last
\* row only.
RECURSIVE draw_bytes_from_last_row(_, _, _, _)
draw_bytes_from_last_row(self, n, i, overwritten) ==
  IF i >= n.fourth_nibble
  THEN SetV(self, 15, IF overwritten THEN 1 ELSE 0)
  ELSE IF ~IndexOk(self.registers.i + i, MEMORY_SIZE)
       THEN Raise(self, "IndexError")
  ELSE IF ~self.display.present
       THEN Raise(self, "AttributeError")
  ELSE LET r == draw_byte(self.display, V(self, n.second_nibble),
                          V(self, n.third_nibble) + i,
                          MemAt(self.memory,
                                ListPos(self.registers.i + i, MEMORY_SIZE)))
       IN  draw_bytes_from_last_row([self EXCEPT !.display = r.display], n,
                                    i + 1, r.ret)

\* Dxyn - DRW Vx, Vy, nibble: the loop of draw_bytes from row i on.
RECURSIVE draw_bytes_from(_, _, _, _)
draw_bytes_from(self, n, i, overwritten) ==
  IF i >= n.fourth_nibble
  THEN SetV(self, 15, IF overwritten THEN 1 ELSE 0)
  ELSE IF ~IndexOk(self.registers.i + i, MEMORY_SIZE)
       THEN Raise(self, "IndexError")
  ELSE IF ~self.display.present
       THEN Raise(self, "AttributeError")
  ELSE LET r == draw_byte(self.display, V(self, n.second_nibble),
                          V(self, n.third_nibble) + i,
                          MemAt(self.memory,
                                ListPos(self.registers.i + i, MEMORY_SIZE)))
       IN  draw_bytes_from([self EXCEPT !.display = r.display], n, i + 1,
                           overwritten \/ r.ret)

draw_bytes(self, n) == draw_bytes_from(self, n, 0, FALSE)

(***************************************************************************)
(* Keys, timers and the address register.                                  *)
(***************************************************************************)
\* is_key_pressed: KEY_MAPPINGS[key] raises KeyError for a key outside the
\* table; held is pygame.key.get_pressed(), the set of host keys held.
KeyKnown(key) == key \in DOMAIN KEY_MAPPINGS

is_key_pressed(key, held) == KEY_MAPPINGS[key] \in held

\* Ex9E - SKP Vx
skip_on_keypress(self, n, held) ==
  LET key == V(self, n.second_nibble)
  IN  IF ~KeyKnown(key) THEN Raise(self, "KeyError")
      ELSE IF is_key_pressed(key, held)
           THEN SetPC(self, self.registers.pc + 2) ELSE self

\* ExA1 - SKNP Vx
skip_on_not_keypress(self, n, held) ==
  LET key == V(self, n.second_nibble)
  IN  IF ~KeyKnown(key) THEN Raise(self, "KeyError")
      ELSE IF ~is_key_pressed(key, held)
           THEN SetPC(self, self.registers.pc + 2) ELSE self

\* Fx07 - LD Vx, DT
ld_reg_with_dly_timer(self, n) == SetV(self, n.second_nibble, self.timers.delay)

\* Fx0A - LD Vx, K.  key_pressed is what wait_and_get_key returned:
\* event.key of the key-down event that ended the wait.
wait_for_input(self, n, key_pressed) == SetV(self, n.second_nibble, key_pressed)

\* Fx15 - LD DT, Vx
ld_delay_timer_with_reg(self, n) ==
  [self EXCEPT !.timers.delay = V(self, n.second_nibble)]

\* Fx18 - LD ST, Vx
ld_sound_timer_with_reg(self, n) ==
  [self EXCEPT !.timers.sound = V(self, n.second_nibble)]

\* Fx1E - ADD I, Vx
add_i_with_reg(self, n) ==
  [self EXCEPT !.registers.i = BitAnd(@ + V(self, n.second_nibble), 65535)]

\* Fx29 - LD F, Vx.  sprite_char_addr is a local that is never stored.
ld_i_font_sprite(self, n) ==
  LET sprite_char      == V(self, n.second_nibble)
      sprite_char_addr == FONT_ADDR_START + (sprite_char * 5)
  IN  self

\* A variant of MemStore that writes the cell before addr.
MemStore_cell_before(self, addr, value) ==
  IF ~Ok(self) THEN self
  ELSE IF ~IndexOk(addr - 1, MEMORY_SIZE) THEN Raise(self, "IndexError")
  ELSE [self EXCEPT !.memory = MemPut(@, ListPos(addr - 1, MEMORY_SIZE), value)]

\* self.memory[addr] = value
MemStore(self, addr, value) ==
  IF ~Ok(self) THEN self
  ELSE IF ~IndexOk(addr, MEMORY_SIZE) THEN Raise(self, "IndexError")
  ELSE [self EXCEPT !.memory = MemPut(@, ListPos(addr, MEMORY_SIZE), value)]

\* A variant of ld_i_bcd_of_reg whose tens digit is not reduced modulo 10.
ld_i_bcd_of_reg_tens(self, n) ==
  LET second_nibble == V(self, n.second_nibble)
      self1 == MemStore(self, self.registers.i,
                        BitAnd((second_nibble \div 100) % 10, 255))
      self2 == MemStore(self1, self.registers.i + 1,
                        BitAnd(second_nibble \div 10, 255))
  IN  MemStore(self2, self.registers.i + 2, BitAnd(second_nibble % 10, 255))

\* Fx33 - LD B, Vx: three stores, in this order.
ld_i_bcd_of_reg(self, n) ==
  LET second_nibble == V(self, n.second_nibble)
      self1 == MemStore(self, self.registers.i,
                        BitAnd((second_nibble \div 100) % 10, 255))
      self2 == MemStore(self1, self.registers.i + 1,
                        BitAnd((second_nibble \div 10) % 10, 255))
  IN  MemStore(self2, self.registers.i + 2, BitAnd(second_nibble % 10, 255))

\* Fx55 - LD [I], Vx: the loop from register i on.
RECURSIVE store_regs_from(_, _, _)
store_regs_from(self, n, i) ==
  IF i > n.second_nibble \/ ~Ok(self) THEN self
  ELSE store_regs_from(MemStore(self, self.registers.i + i, V(self, i)), n, i + 1)

store_regs_at_i(self, n) == store_regs_from(self, n, 0)

\* A variant of the loop of ld_regs_at_i that reads one cell too far on.
RECURSIVE ld_regs_from_next_cell(_, _, _)
ld_regs_from_next_cell(self, n, i) ==
  IF i > n.second_nibble THEN self
  ELSE IF ~IndexOk(self.registers.i + i + 1, MEMORY_SIZE)
       THEN Raise(self, "IndexError")
       ELSE ld_regs_from_next_cell(
              SetV(self, i, MemAt(self.memory,
                                  ListPos(self.registers.i + i + 1,
                                          MEMORY_SIZE))),
              n, i + 1)

\* Fx65 - LD Vx, [I]: the loop from register i on.
RECURSIVE ld_regs_from(_, _, _)
ld_regs_from(self, n, i) ==
  IF i > n.second_nibble THEN self
  ELSE IF ~IndexOk(self.registers.i + i, MEMORY_SIZE)
       THEN Raise(self, "IndexError")
       ELSE ld_regs_from(
              SetV(self, i, MemAt(self.memory,
                                  ListPos(self.registers.i + i, MEMORY_SIZE))),
              n, i + 1)

ld_regs_at_i(self, n) == ld_regs_from(self, n, 0)

(***************************************************************************)
(* Dispatch.  io holds what the cycle reads from outside the machine:      *)
(* rnd (random.randint), keys_pressed (pygame.key.get_pressed) and key     *)
(* (the key of the event that ended wait_and_get_key).                     *)
(***************************************************************************)
opcode_0x0_last_byte_lookup == {224, 238}

opcode_0x8_fourth_nibble_lookup == {0, 1, 2, 3, 4, 5, 6, 7, 14}

opcode_0xE_last_byte_lookup == {158, 161}

opcode_0xF_last_byte_lookup == {7, 10, 21, 24, 30, 41, 51, 85, 101}

\* validate_lookup raises InvalidLookup for a key the table does not hold.
validate_lookup(lookup_table, nibble) ==
  IF nibble \in lookup_table THEN "none" ELSE "InvalidLookup"

lookup_opcode_0x0(self, n) ==
  IF validate_lookup(opcode_0x0_last_byte_lookup, n.last_byte) # "none"
  THEN Raise(self, "InvalidLookup")
  ELSE CASE n.last_byte = 224 -> clear_screen(self)
         [] n.last_byte = 238 -> return_from_subrtn(self)

\* A variant of lookup_opcode_0x8 that ignores a key the table lacks.
lookup_opcode_0x8_lenient(self, n) ==
  CASE n.fourth_nibble = 0  -> ld_reg_to_reg(self, n)
    [] n.fourth_nibble = 1  -> or_regs(self, n)
    [] n.fourth_nibble = 2  -> and_regs(self, n)
    [] n.fourth_nibble = 3  -> xor_regs(self, n)
    [] n.fourth_nibble = 4  -> add_regs(self, n)
    [] n.fourth_nibble = 5  -> sub_regs(self, n)
    [] n.fourth_nibble = 6  -> right_shift_reg(self, n)
    [] n.fourth_nibble = 7  -> reverse_sub_regs(self, n)
    [] n.fourth_nibble = 14 -> left_shift_reg(self, n)
    [] OTHER -> self

lookup_opcode_0x8(self, n) ==
  IF validate_lookup(opcode_0x8_fourth_nibble_lookup, n.fourth_nibble) # "none"
  THEN Raise(self, "InvalidLookup")
  ELSE CASE n.fourth_nibble = 0  -> ld_reg_to_reg(self, n)
         [] n.fourth_nibble = 1  -> or_regs(self, n)
         [] n.fourth_nibble = 2  -> and_regs(self, n)
         [] n.fourth_nibble = 3  -> xor_regs(self, n)
         [] n.fourth_nibble = 4  -> add_regs(self, n)
         [] n.fourth_nibble = 5  -> sub_regs(self, n)
         [] n.fourth_nibble = 6  -> right_shift_reg(self, n)
         [] n.fourth_nibble = 7  -> reverse_sub_regs(self, n)
         [] n.fourth_nibble = 14 -> left_shift_reg(self, n)

lookup_opcode_0xE(self, n, io) ==
  IF validate_lookup(opcode_0xE_last_byte_lookup, n.last_byte) # "none"
  THEN Raise(self, "InvalidLookup")
  ELSE CASE n.last_byte = 158 -> skip_on_keypress(self, n, io.keys_pressed)
         [] n.last_byte = 161 -> skip_on_not_keypress(self, n, io.keys_pressed)

lookup_opcode_0xF(self, n, io) ==
  IF validate_lookup(opcode_0xF_last_byte_lookup, n.last_byte) # "none"
  THEN Raise(self, "InvalidLookup")
  ELSE CASE n.last_byte = 7   -> ld_reg_with_dly_timer(self, n)
         [] n.last_byte = 10  -> wait_for_input(self, n, io.key)
         [] n.last_byte = 21  -> ld_delay_timer_with_reg(self, n)
         [] n.last_byte = 24  -> ld_sound_timer_with_reg(self, n)
         [] n.last_byte = 30  -> add_i_with_reg(self, n)
         [] n.last_byte = 41  -> ld_i_font_sprite(self, n)
         [] n.last_byte = 51  -> ld_i_bcd_of_reg(self, n)
         [] n.last_byte = 85  -> store_regs_at_i(self, n)
         [] n.last_byte = 101 -> ld_regs_at_i(self, n)

\* self.opcode_first_nibble_lookup[first_nibble](opcode_nibbles): the table
\* registers jump_addr under 0xB.
opcode_first_nibble_lookup(self, n, io) ==
  CASE n.first_nibble = 0  -> lookup_opcode_0x0(self, n)
    [] n.first_nibble = 1  -> jump_addr(self, n)
    [] n.first_nibble = 2  -> call_addr(self, n)
    [] n.first_nibble = 3  -> skip_reg_eq_byte(self, n)
    [] n.first_nibble = 4  -> skip_reg_neq_byte(self, n)
    [] n.first_nibble = 5  -> skip_reg_eq_reg(self, n)
    [] n.first_nibble = 6  -> ld_to_reg(self, n)
    [] n.first_nibble = 7  -> add_byte_to_reg(self, n)
    [] n.first_nibble = 8  -> lookup_opcode_0x8(self, n)
    [] n.first_nibble = 9  -> skip_reg_neq_reg(self, n)
    [] n.first_nibble = 10 -> ld_i(self, n)
    [] n.first_nibble = 11 -> jump_addr(self, n)
    [] n.first_nibble = 12 -> store_rnd_anded_byte_to_reg(self, n, io.rnd)
    [] n.first_nibble = 13 -> draw_bytes(self, n)
    [] n.first_nibble = 14 -> lookup_opcode_0xE(self, n, io)
    [] n.first_nibble = 15 -> lookup_opcode_0xF(self, n, io)

\* A variant of execute_opcode without the uniform advance.
execute_opcode_no_advance(self, opcode, io) ==
  IF ~DecodeOk(opcode) THEN Raise(self, "IndexError")
  ELSE opcode_first_nibble_lookup(self, get_opcode_nibble_dict(opcode), io)

\* execute_opcode: decode, dispatch, and the uniform advance, which an
\* exception raised before it skips.
execute_opcode(self, opcode, io) ==
  IF ~DecodeOk(opcode) THEN Raise(self, "IndexError")
  ELSE LET n == get_opcode_nibble_dict(opcode)
           r == opcode_first_nibble_lookup(self, n, io)
       IN  IF ~Ok(r) THEN r ELSE SetPC(r, r.registers.pc + 2)

(***************************************************************************)
(* The ROMs the model runs.  A ROM is a sequence of opcodes, stored        *)
(* big-endian from START_ADDR on.                                          *)
(***************************************************************************)
Op(a, b, c, d) == 4096 * a + 256 * b + 16 * c + d

OpKK(a, b, kk) == 4096 * a + 256 * b + kk

OpNNN(a, nnn) == 4096 * a + nnn

RECURSIVE RomBytes(_)
RomBytes(ops) ==
  IF ops = <<>> THEN <<>>
  ELSE <<Head(ops) \div 256, Head(ops) % 256>> \o RomBytes(Tail(ops))

\* The deepest chain of nested calls a ROM starts with.
MaxCalls == 16

\* Byte values the ROMs load into registers: the ends of the range, both
\* sides of bit 7, and the operands of the documented examples.
ByteSamples == {0, 15, 35, 37, 127, 128, 171, 255}

RegSamples == {0, 1, 15}

\* The register pairs <<x, y>> of the two-register instructions: distinct
\* registers, the same register twice, and VF on either side.
RegPairs == {<<0, 1>>, <<1, 1>>, <<1, 15>>, <<15, 1>>, <<15, 15>>}

\* The number of cycles the model follows a run for.
MaxCycles == 24

\* Jump and call targets: the font, the ROM itself, odd and even addresses,
\* the ends of the 12-bit range.
AddrSamples == {0, 1, 2, 81, 512, 514, 768, 1365, 2730, 4094, 4095}

\* Values of I: a glyph, free memory, and the last cells of memory.
ISamples == {0, 80, 768, 4093, 4094, 4095}

\* k calls, each to the instruction that follows it.
CallChain(k) == [j \in 1..k |-> OpNNN(2, START_ADDR + 2 * j)]

\* The arithmetic, logic and skip instructions on Vx and Vy, with the
\* unregistered 8xyk among them.
AluOps(x, y, kk) ==
  {Op(8, x, y, k) : k \in 0..15}
    \cup {Op(5, x, y, 0), Op(9, x, y, 0), OpKK(3, x, kk), OpKK(4, x, kk)}

\* Two register loads, then one instruction on these registers.
RomsAlu ==
  UNION { IF xy[1] = xy[2] /\ a # b THEN {}
          ELSE { <<OpKK(6, xy[1], a), OpKK(6, xy[2], b), op>> :
                   op \in AluOps(xy[1], xy[2], b) } :
          xy \in RegPairs, a \in ByteSamples, b \in ByteSamples }

\* A chain of calls, a load of V0, then a return, a jump, a call or a jump
\* with offset.
FlowOps ==
  {Op(0, 0, 14, 14)}
    \cup {OpNNN(1, nnn) : nnn \in AddrSamples}
    \cup {OpNNN(2, nnn) : nnn \in AddrSamples}
    \cup {OpNNN(11, nnn) : nnn \in AddrSamples}

RomsFlow ==
  UNION { { Append(CallChain(k), OpKK(6, 0, a)) \o <<op>> : op \in FlowOps } :
          k \in 0..MaxCalls, a \in {0, 255} }

\* The remaining instructions on Vx that do not use I, the unregistered
\* 00kk, Exkk and Fxkk among them.
MiscOps(x) ==
  {Op(0, 0, 14, 0), Op(0, 0, 0, 0), Op(0, 0, 15, 15),
   OpKK(6, x, 18), OpKK(7, x, 1), OpKK(7, x, 255), OpNNN(10, 291),
   OpKK(12, x, 15), OpKK(12, x, 129),
   OpKK(14, x, 158), OpKK(14, x, 161), OpKK(14, x, 0),
   OpKK(15, x, 7), OpKK(15, x, 10), OpKK(15, x, 21), OpKK(15, x, 24),
   OpKK(15, x, 0), OpKK(15, x, 255)}

\* The instructions on Vx that read I.
MemOps(x) ==
  {Op(13, x, x, 0), Op(13, x, x, 1), Op(13, x, x, 5),
   OpKK(15, x, 30), OpKK(15, x, 41), OpKK(15, x, 51), OpKK(15, x, 85),
   OpKK(15, x, 101)}

\* A load of Vx, a load of I, then one instruction.
RomsMisc ==
  UNION { { <<OpKK(6, x, a), OpNNN(10, i), op>> :
              op \in IF i = 768 THEN MiscOps(x) \cup MemOps(x) ELSE MemOps(x) } :
          x \in RegSamples, a \in ByteSamples, i \in ISamples }

\* Sprite positions: the origin, inside the first block of the surface,
\* beyond it, and the right and bottom edges.
DrawXs == {0, 5, 20, 60, 63}

DrawYs == {0, 2, 31}

\* The address of the sprite data a drawing ROM carries after its last
\* instruction: the rows 0xFF and 0x00.
SpriteAddr == START_ADDR + 10

\* Loads of V0, V1 and I, the same sprite drawn twice at (V0, V1), then the
\* sprite data.  The sprite is the glyph "0" of the font or the data of the
\* ROM, its height 0, 1, 2 or 5.
RomsDraw ==
  { <<OpKK(6, 0, x), OpKK(6, 1, y), OpNNN(10, i), Op(13, 0, 1, n),
      Op(13, 0, 1, n), OpKK(15, 15, 0)>> :
      x \in DrawXs, y \in DrawYs, i \in {FONT_ADDR_START, SpriteAddr},
      n \in {0, 1, 2, 5} }

\* A load of V0 and of Vx, a store of V0..Vx at I, other values loaded into
\* V0 and Vx, then a load of V0..Vx from I.  I points to free memory, to the
\* last x + 1 cells for x = 15, or to the last cell.
RomsRoundTrip ==
  { <<OpKK(6, 0, 171), OpKK(6, x, a), OpNNN(10, i), OpKK(15, x, 85),
      OpKK(6, 0, 99), OpKK(6, x, 98), OpKK(15, x, 101)>> :
      x \in RegSamples, a \in {0, 37, 255}, i \in {768, 4080, 4095} }

\* Every byte value loaded into V0, then its decimal digits stored at 0x300.
RomsBcd ==
  { <<OpKK(6, 0, a), OpNNN(10, 768), OpKK(15, 0, 51)>> : a \in 0..255 }

\* A glyph drawn at (V0, V1), then the screen cleared twice.
RomsClear ==
  { <<OpKK(6, 0, x), OpKK(6, 1, y), OpNNN(10, FONT_ADDR_START),
      Op(13, 0, 1, 5), Op(0, 0, 14, 0), Op(0, 0, 14, 0)>> :
      x \in DrawXs, y \in DrawYs }

Roms ==
  {RomBytes(ops) :
     ops \in RomsAlu \cup RomsFlow \cup RomsMisc \cup RomsDraw
               \cup RomsRoundTrip \cup RomsBcd \cup RomsClear}

\* A load of Vx, a wait for a key into Vx, then a key skip on Vx or a
\* second wait.
RomsWait ==
  UNION { { <<OpKK(6, x, a), OpKK(15, x, 10), op>> :
              op \in {OpKK(14, x, 158), OpKK(14, x, 161), OpKK(15, x, 10)} } :
          x \in RegSamples, a \in {0, 255} }

WaitRoms == {RomBytes(ops) : ops \in RomsWait}

(***************************************************************************)
(* What a cycle reads from outside the machine.                            *)
(***************************************************************************)
\* pygame.key.get_pressed: no key held, or one of the mapped keys.
KeySets == {{}} \cup {{c} : c \in KeyCodes}

\* Cxkk reads random.randint(0, 255); no other opcode does.
Rnds(opcode) ==
  IF DecodeOk(opcode) /\ get_opcode_nibble_dict(opcode).first_nibble = 12
  THEN 0..255 ELSE {0}

\* Exkk reads the key state.
ReadsKeys(opcode) ==
  DecodeOk(opcode) /\ get_opcode_nibble_dict(opcode).first_nibble = 14

\* Fx0A: the handler blocks in wait_and_get_key.
IsWaitForInput(opcode) ==
  /\ DecodeOk(opcode)
  /\ get_opcode_nibble_dict(opcode).first_nibble = 15
  /\ get_opcode_nibble_dict(opcode).last_byte = 10

\* The events pygame.event.get may deliver during the wait: quit, a key-down
\* of a mapped key, a key-down of another key (32, the space bar), a key-up.
Events ==
  {[type |-> "QUIT", key |-> 0], [type |-> "KEYUP", key |-> 120],
   [type |-> "KEYDOWN", key |-> 32]}
    \cup {[type |-> "KEYDOWN", key |-> c] : c \in KeyCodes}

(***************************************************************************)
(* The state machine.  pos is where the program is: "run" between cycles,  *)
(* "wait_key" inside wait_and_get_key, "exited" after sys.exit.            *)
(* keys_pressed is the set of host keys held down.  exc is                 *)
(* the exception that ended the last cycle; none is caught, so it ends     *)
(* the run.  last_opcode is the opcode of the cycle begun last (-1: none,  *)
(* or the fetch gave fewer than two bytes), cycles the number of cycles    *)
(* begun.                                                                  *)
(***************************************************************************)
Install(self) ==
  /\ memory' = self.memory
  /\ registers' = self.registers
  /\ stack' = self.stack
  /\ timers' = self.timers
  /\ display' = self.display
  /\ exc' = self.exc

\* The constructor's clock_ticks and timer_ticks, no debugger (DEBUG is
\* False in config.py), and main_loop at emulate_cyle.
NoDebugger ==
  [DEBUG |-> FALSE, breakpoints |-> <<>>, halt |-> FALSE, last_input |-> <<>>]

HostIdle ==
  /\ now = 0
  /\ clock_ticks = 0
  /\ timer_ticks = 0
  /\ loop = "emulate_cyle"
  /\ debugger = NoDebugger
  /\ cycle_gap = -1
  /\ resumed = [command |-> "", cycles |-> 0, line |-> <<>>]

\* Construction, load_rom of one of roms, and create_display at the head of
\* main_loop.
Launched(roms) ==
  \E rom \in roms :
    LET self == create_display(load_rom(Constructed, rom))
    IN  /\ memory = self.memory
        /\ registers = self.registers
        /\ stack = self.stack
        /\ timers = self.timers
        /\ display = self.display
        /\ exc = self.exc
        /\ pos = "run"
        /\ keys_pressed = {}
        /\ last_opcode = -1
        /\ cycles = 0

Started(roms) == Launched(roms) /\ HostIdle

\* The machine as the constructor leaves it: no ROM loaded, no display
\* created.
Fresh ==
  /\ memory = Constructed.memory
  /\ registers = Constructed.registers
  /\ stack = Constructed.stack
  /\ timers = Constructed.timers
  /\ display = Constructed.display
  /\ exc = Constructed.exc
  /\ pos = "run"
  /\ keys_pressed = {}
  /\ last_opcode = -1
  /\ cycles = 0

Init == Started(Roms) \/ (Fresh /\ HostIdle)

\* The machine started on a ROM that waits for a key.
InitWait == Started(WaitRoms)

Word(opcode) == IF DecodeOk(opcode) THEN get_opcode_nibble_dict(opcode).all ELSE -1

\* emulate_cyle on the variables of the machine, the count of cycles left
\* aside.
Execute ==
  /\ pos = "run"
  /\ exc = "none"
  /\ UNCHANGED keys_pressed
  /\ LET opcode == fetch_opcode(Self)
     IN  /\ last_opcode' = Word(opcode)
         /\ IF IsWaitForInput(opcode)
            THEN /\ pos' = "wait_key"
                 /\ UNCHANGED <<memory, registers, stack, timers, display, exc>>
            ELSE /\ pos' = "run"
                 /\ \E rnd \in Rnds(opcode) :
                      Install(execute_opcode(Self, opcode,
                                [rnd |-> rnd, keys_pressed |-> keys_pressed,
                                 key |-> 0]))

\* emulate_cyle, counted.
Cycle ==
  /\ cycles < MaxCycles
  /\ cycles' = cycles + 1
  /\ Execute

emulate_cyle == Cycle /\ UNCHANGED hostvars

\* A variant of wait_and_get_key that returns on any key-down event.
wait_and_get_key_any_key ==
  /\ pos = "wait_key"
  /\ UNCHANGED hostvars
  /\ \E event \in Events :
       IF event.type = "QUIT"
       THEN /\ pos' = "exited"
            /\ UNCHANGED <<memory, registers, stack, timers, display, exc,
                           keys_pressed, last_opcode, cycles>>
       ELSE IF event.type = "KEYDOWN"
       THEN /\ pos' = "run"
            /\ Install(execute_opcode(Self, fetch_opcode(Self),
                         [rnd |-> 0, keys_pressed |-> keys_pressed,
                          key |-> event.key]))
            /\ UNCHANGED <<keys_pressed, last_opcode, cycles>>
       ELSE UNCHANGED vars

\* One event taken from the queue while Fx0A waits, on the variables of the
\* machine.
Wait ==
  /\ pos = "wait_key"
  /\ \E event \in Events :
       IF event.type = "QUIT"
       THEN /\ pos' = "exited"
            /\ UNCHANGED <<memory, registers, stack, timers, display, exc,
                           keys_pressed, last_opcode, cycles>>
       ELSE IF event.type = "KEYDOWN" /\ event.key \in KeyCodes
       THEN /\ pos' = "run"
            /\ Install(execute_opcode(Self, fetch_opcode(Self),
                         [rnd |-> 0, keys_pressed |-> keys_pressed,
                          key |-> event.key]))
            /\ UNCHANGED <<keys_pressed, last_opcode, cycles>>
       ELSE UNCHANGED <<memory, registers, stack, timers, display, exc, pos,
                        keys_pressed, last_opcode, cycles>>

wait_and_get_key == Wait /\ UNCHANGED hostvars

\* The user presses or releases keys.  The model follows a change of the
\* key state only where the next cycle reads it: at any other point the
\* machine does not see it.
key_state_change ==
  /\ pos = "run"
  /\ exc = "none"
  /\ cycles < MaxCycles
  /\ ReadsKeys(fetch_opcode(Self))
  /\ \E ks \in KeySets : keys_pressed' = ks
  /\ UNCHANGED <<memory, registers, stack, timers, display, exc, pos,
                 last_opcode, cycles>>
  /\ UNCHANGED hostvars

Next == emulate_cyle \/ wait_and_get_key \/ key_state_change

Spec == Init /\ [][Next]_vars

\* The runs of the ROMs that wait for a key in which no wait goes on forever:
\* the user eventually presses a mapped key or closes the window.
LiveSpec == InitWait /\ [][Next]_vars /\ WF_vars(wait_and_get_key)

(***************************************************************************)
(* load_memory on its own: a constructed machine, then one call of         *)
(* load_memory(start_addr, data), as load_rom makes it with START_ADDR and *)
(* the bytes of the file.                                                  *)
(***************************************************************************)
\* A ROM that fills memory from START_ADDR to the last cell: its first and
\* last bytes are 0xFF, the others 0.
FullRom ==
  [j \in 1..(MEMORY_SIZE - START_ADDR) |->
     IF j \in {1, MEMORY_SIZE - START_ADDR} THEN 255 ELSE 0]

LoadStarts ==
  {0, 1, 2, 78, 80, START_ADDR, 768, 2048, 4000, 4092, 4093, 4094, 4095, 4096,
   4097}

LoadDatas ==
  {<<>>, <<0>>, <<7>>, <<255>>, <<1, 2>>, <<0, 9>>, <<9, 0, 9>>, <<1, 2, 3>>,
   <<4, 5, 6, 7>>, <<0, 0, 0, 1>>, <<8, 8, 8, 8, 8>>, FullRom,
   Append(FullRom, 1)}

InitLoad ==
  /\ memory = Constructed.memory
  /\ registers = Constructed.registers
  /\ stack = Constructed.stack
  /\ timers = Constructed.timers
  /\ display = Constructed.display
  /\ exc = Constructed.exc
  /\ pos = "constructed"
  /\ keys_pressed = {}
  /\ last_opcode = -1
  /\ cycles = 0
  /\ HostIdle

load_memory_call ==
  /\ pos = "constructed"
  /\ pos' = "loaded"
  /\ \E start_addr \in LoadStarts, data \in LoadDatas :
       Install(load_memory(Self, start_addr, data))
  /\ UNCHANGED <<keys_pressed, last_opcode, cycles>>
  /\ UNCHANGED hostvars

LoadSpec == InitLoad /\ [][load_memory_call]_vars

(***************************************************************************)
(* main_loop with its two gates.  now is pygame.time.get_ticks(), in       *)
(* milliseconds; loop names the statement of main_loop that runs next.     *)
(***************************************************************************)
\* config.py: round((1 / 500) * 1000) and round((1 / 60) * 1000).
CLOCK_SPEED == 2
TIMER_SPEED == 17

\* The last tick the clock is followed to.
MaxTicks == 36

\* The instants at which the clock is looked at: the first three
\* milliseconds of every timer period.  Between two statements the clock
\* moves from where it is to any later one of them.
Ticks == {t \in 0..MaxTicks : t % TIMER_SPEED <= CLOCK_SPEED}

\* Loads of V0 and V1, of the delay timer from V0 and of the sound timer
\* from V1, then a wait for a key.
RomsTimers ==
  { <<OpKK(6, 0, ab[1]), OpKK(6, 1, ab[2]), OpKK(15, 0, 21), OpKK(15, 1, 24),
      OpKK(15, 2, 10)>> :
      ab \in {<<0, 0>>, <<3, 0>>, <<0, 1>>, <<255, 255>>} }

InitMain ==
  /\ Launched({RomBytes(ops) : ops \in RomsTimers})
  /\ now = 0
  /\ clock_ticks = 0
  /\ timer_ticks = 0
  /\ loop = "init_clocks"
  /\ debugger = NoDebugger
  /\ cycle_gap = -1
  /\ resumed = [command |-> "", cycles |-> 0, line |-> <<>>]

\* The run has not ended: no sys.exit, no uncaught exception.
Running == pos # "exited" /\ exc = "none"

\* The monotonic clock moves on.
time_passes ==
  /\ Running
  /\ \E t \in Ticks :
       /\ t > now
       /\ now' = t
       /\ cycle_gap' = IF cycle_gap < 0 THEN cycle_gap
                       ELSE IF cycle_gap + (t - now) < CLOCK_SPEED
                       THEN cycle_gap + (t - now)
                       ELSE CLOCK_SPEED
  /\ UNCHANGED <<memory, registers, stack, timers, display, exc, pos,
                 keys_pressed, last_opcode, cycles, clock_ticks, timer_ticks,
                 loop, debugger, resumed>>

init_clocks ==
  /\ Running
  /\ loop = "init_clocks"
  /\ clock_ticks' = now
  /\ timer_ticks' = now
  /\ loop' = "handle_pygame_events"
  /\ UNCHANGED <<memory, registers, stack, timers, display, exc, pos,
                 keys_pressed, last_opcode, cycles, now, debugger, cycle_gap,
                 resumed>>

\* The events of the queue hold a QUIT, or they do not.
handle_pygame_events ==
  /\ Running
  /\ loop = "handle_pygame_events"
  /\ \E quit \in BOOLEAN :
       IF quit
       THEN pos' = "exited" /\ UNCHANGED loop
       ELSE /\ UNCHANGED pos
            /\ loop' = IF debugger.DEBUG THEN "debugger_run"
                       ELSE "emulate_cyle"
  /\ UNCHANGED <<memory, registers, stack, timers, display, exc,
                 keys_pressed, last_opcode, cycles, now, clock_ticks,
                 timer_ticks, debugger, cycle_gap, resumed>>

\* self.emulate_cyle() in main_loop.  The statement is over when the cycle
\* is: Fx0A keeps it in wait_and_get_key.
main_loop_emulate_cyle ==
  /\ loop = "emulate_cyle"
  /\ Cycle
  /\ cycle_gap' = 0
  /\ loop' = IF pos' = "wait_key" THEN "emulate_cyle" ELSE "update_timers"
  /\ UNCHANGED <<now, clock_ticks, timer_ticks, debugger, resumed>>

main_loop_wait_and_get_key ==
  /\ loop = "emulate_cyle"
  /\ Wait
  /\ loop' = IF pos' = "run" THEN "update_timers" ELSE "emulate_cyle"
  /\ UNCHANGED <<now, clock_ticks, timer_ticks, debugger, cycle_gap,
                 resumed>>

\* A variant of decrease_timers without the tests against 0.
decrease_timers_unguarded(self) ==
  [self EXCEPT !.timers.delay = @ - 1, !.timers.sound = @ - 1]

decrease_timers(self) ==
  [self EXCEPT !.timers.delay = IF @ > 0 THEN @ - 1 ELSE @,
               !.timers.sound = IF @ > 0 THEN @ - 1 ELSE @]

\* A variant of update_timers that decrements once for every period that
\* has elapsed.
update_timers_catch_up ==
  /\ Running
  /\ loop = "update_timers"
  /\ LET cur_tick == now
         elapsed  == (cur_tick - timer_ticks) \div TIMER_SPEED
     IN  IF elapsed >= 1
         THEN /\ Install(IF elapsed >= 2
                         THEN decrease_timers(decrease_timers(Self))
                         ELSE decrease_timers(Self))
              /\ timer_ticks' = cur_tick
         ELSE UNCHANGED <<memory, registers, stack, timers, display, exc,
                          timer_ticks>>
  /\ loop' = "cpu_clock_delay"
  /\ UNCHANGED <<pos, keys_pressed, last_opcode, cycles, now, clock_ticks,
                 debugger, cycle_gap, resumed>>

\* A variant of update_timers whose gate never opens.
update_timers_gate_shut ==
  /\ Running
  /\ loop = "update_timers"
  /\ loop' = "cpu_clock_delay"
  /\ UNCHANGED <<memory, registers, stack, timers, display, exc, pos,
                 keys_pressed, last_opcode, cycles, now, clock_ticks,
                 timer_ticks, debugger, cycle_gap, resumed>>

update_timers ==
  /\ Running
  /\ loop = "update_timers"
  /\ LET cur_tick == now
     IN  IF (cur_tick - timer_ticks) >= TIMER_SPEED
         THEN /\ Install(decrease_timers(Self))
              /\ timer_ticks' = cur_tick
         ELSE UNCHANGED <<memory, registers, stack, timers, display, exc,
                          timer_ticks>>
  /\ loop' = "cpu_clock_delay"
  /\ UNCHANGED <<pos, keys_pressed, last_opcode, cycles, now, clock_ticks,
                 debugger, cycle_gap, resumed>>

\* pygame.time.delay(d) returns d milliseconds later at the earliest.
cpu_clock_delay ==
  /\ Running
  /\ loop = "cpu_clock_delay"
  /\ LET cur_tick == now
     IN  IF (cur_tick - clock_ticks) < CLOCK_SPEED
         THEN /\ now' = now + (cur_tick - clock_ticks)
              /\ cycle_gap' = IF cycle_gap < 0 THEN cycle_gap
                              ELSE IF cycle_gap + (cur_tick - clock_ticks)
                                        < CLOCK_SPEED
                              THEN cycle_gap + (cur_tick - clock_ticks)
                              ELSE CLOCK_SPEED
              /\ clock_ticks' = cur_tick
         ELSE UNCHANGED <<now, clock_ticks, cycle_gap>>
  /\ loop' = "handle_pygame_events"
  /\ UNCHANGED <<memory, registers, stack, timers, display, exc, pos,
                 keys_pressed, last_opcode, cycles, timer_ticks, debugger,
                 resumed>>

NextMain ==
  \/ time_passes
  \/ init_clocks
  \/ handle_pygame_events
  \/ main_loop_emulate_cyle
  \/ main_loop_wait_and_get_key
  \/ update_timers
  \/ cpu_clock_delay

MainSpec == InitMain /\ [][NextMain]_vars

(***************************************************************************)
(* main_loop without an end.  Only the times elapsed since the two         *)
(* reference ticks reach the code, the first compared with CLOCK_SPEED and *)
(* used below it, the second compared with TIMER_SPEED; so the clock is    *)
(* read relative to TIMER_SPEED, the elapsed times counted up to these     *)
(* periods, and the cycles are not counted.                                *)
(***************************************************************************)
\* The clock at t, with the reference ticks ct and tt.
Settle(t, ct, tt) ==
  /\ now' = TIMER_SPEED
  /\ clock_ticks' = TIMER_SPEED
                      - (IF t - ct < CLOCK_SPEED THEN t - ct ELSE CLOCK_SPEED)
  /\ timer_ticks' = TIMER_SPEED
                      - (IF t - tt < TIMER_SPEED THEN t - tt ELSE TIMER_SPEED)

\* The monotonic clock moves on, by a millisecond or by a timer period.
clock_runs ==
  /\ Running
  /\ \E d \in {1, TIMER_SPEED} :
       /\ Settle(now + d, clock_ticks, timer_ticks)
       /\ cycle_gap' = IF cycle_gap < 0 THEN cycle_gap
                       ELSE IF cycle_gap + d < CLOCK_SPEED
                       THEN cycle_gap + d
                       ELSE CLOCK_SPEED
  /\ UNCHANGED <<memory, registers, stack, timers, display, exc, pos,
                 keys_pressed, last_opcode, cycles, loop, debugger, resumed>>

\* self.emulate_cyle() in main_loop.
main_loop_emulate_cyle_on ==
  /\ loop = "emulate_cyle"
  /\ Execute
  /\ cycle_gap' = 0
  /\ loop' = IF pos' = "wait_key" THEN "emulate_cyle" ELSE "update_timers"
  /\ UNCHANGED <<cycles, now, clock_ticks, timer_ticks, debugger, resumed>>

cpu_clock_delay_on ==
  /\ Running
  /\ loop = "cpu_clock_delay"
  /\ LET cur_tick == now
     IN  IF (cur_tick - clock_ticks) < CLOCK_SPEED
         THEN /\ Settle(now + (cur_tick - clock_ticks), cur_tick, timer_ticks)
              /\ cycle_gap' = IF cycle_gap < 0 THEN cycle_gap
                              ELSE IF cycle_gap + (cur_tick - clock_ticks)
                                        < CLOCK_SPEED
                              THEN cycle_gap + (cur_tick - clock_ticks)
                              ELSE CLOCK_SPEED
         ELSE UNCHANGED <<now, clock_ticks, timer_ticks, cycle_gap>>
  /\ loop' = "handle_pygame_events"
  /\ UNCHANGED <<memory, registers, stack, timers, display, exc, pos,
                 keys_pressed, last_opcode, cycles, debugger, resumed>>

\* The ROMs: loads of V0 and V1, of the delay timer from V0 and of the sound
\* timer from V1, then a jump to itself; and a loop that loads the delay
\* timer again and again.
InitSpin ==
  /\ Launched(
       { RomBytes(<<OpKK(6, 0, ab[1]), OpKK(6, 1, ab[2]), OpKK(15, 0, 21),
                    OpKK(15, 1, 24), OpNNN(1, START_ADDR + 8)>>) :
           ab \in {<<1, 0>>, <<3, 2>>, <<0, 2>>} }
         \cup {RomBytes(<<OpKK(6, 0, 2), OpKK(15, 0, 21),
                          OpNNN(1, START_ADDR + 2)>>)})
  /\ now = 0
  /\ clock_ticks = 0
  /\ timer_ticks = 0
  /\ loop = "init_clocks"
  /\ debugger = NoDebugger
  /\ cycle_gap = -1
  /\ resumed = [command |-> "", cycles |-> 0, line |-> <<>>]

\* One statement of main_loop.
main_loop ==
  \/ init_clocks
  \/ handle_pygame_events
  \/ main_loop_emulate_cyle_on
  \/ update_timers
  \/ cpu_clock_delay_on

NextSpin == clock_runs \/ main_loop

\* The clock never stops, and main_loop goes from each statement to the
\* next: WF_vars(main_loop), with its ENABLED written out, for a statement
\* of main_loop can run in every state of a run that has not ended.
SpinSpec ==
  /\ InitSpin
  /\ [][NextSpin]_vars
  /\ WF_vars(clock_runs)
  /\ []<>(~Running) \/ []<><<main_loop>>_vars

(***************************************************************************)
(* Chip8Debugger.  A command line is the list format_string and split make *)
(* of it: a sequence of tokens, a token a sequence of characters.  The      *)
(* breakpoints are Python ints; Python values carry their type, and values *)
(* of different types are not equal.                                       *)
(***************************************************************************)
PyStr(token) == [type |-> "str", value |-> token]

PyInt(k) == [type |-> "int", value |-> k]

PyEq(a, b) == a.type = b.type /\ a.value = b.value

\* x in list
PyIn(x, list) == \E k \in 1..Len(list) : PyEq(x, list[k])

\* list.remove(x): the first element equal to x goes; ValueError if none is.
PyRemove(list, x) ==
  LET k == CHOOSE j \in 1..Len(list) :
             PyEq(list[j], x) /\ \A h \in 1..(j - 1) : ~PyEq(list[h], x)
  IN  SubSeq(list, 1, k - 1) \o SubSeq(list, k + 1, Len(list))

HexChars ==
  <<"0", "1", "2", "3", "4", "5", "6", "7", "8", "9", "a", "b", "c", "d", "e",
    "f">>

StartsWith(token, prefix) ==
  Len(token) >= Len(prefix) /\ SubSeq(token, 1, Len(prefix)) = prefix

\* The digits int(token, 16) reads: the token without its prefix 0x.
HexDigits(token) ==
  IF StartsWith(token, <<"0", "x">>) THEN SubSeq(token, 3, Len(token))
  ELSE token

\* int(token, 16) raises ValueError unless this holds.
IsHex(token) ==
  /\ HexDigits(token) # <<>>
  /\ \A k \in 1..Len(HexDigits(token)) :
       \E h \in 1..Len(HexChars) : HexChars[h] = HexDigits(token)[k]

RECURSIVE HexValue(_)
HexValue(digits) ==
  IF digits = <<>> THEN 0
  ELSE 16 * HexValue(SubSeq(digits, 1, Len(digits) - 1))
         + (CHOOSE h \in 1..Len(HexChars) : HexChars[h] = digits[Len(digits)])
         - 1

\* int(token, 16) & 0xFFFF
HexAddr(token) == BitAnd(HexValue(HexDigits(token)), 65535)

valid_commands == {<<"b">>, <<"s">>, <<"c">>, <<"p">>, <<"d">>, <<"q">>}

\* Chip8Debugger.__init__
Chip8Debugger ==
  [DEBUG |-> TRUE, breakpoints |-> <<>>, halt |-> TRUE, last_input |-> <<>>]

\* get_opcode: memory[pc] << 8 | memory[pc + 1], two subscripts that raise
\* IndexError past the last cell.
get_opcode_raises(self) ==
  \/ ~IndexOk(self.registers.pc, MEMORY_SIZE)
  \/ ~IndexOk(self.registers.pc + 1, MEMORY_SIZE)

get_opcode(self) ==
  BitOr(ShiftLeft(MemAt(self.memory, ListPos(self.registers.pc, MEMORY_SIZE)), 8),
        MemAt(self.memory, ListPos(self.registers.pc + 1, MEMORY_SIZE)))

\* print_disassembly: opcode_lookup hands the int of get_opcode to
\* Chip8CPU.get_opcode_nibble_dict, whose first expression, opcode[0],
\* subscripts it: TypeError, whatever the opcode.
print_disassembly(self, opcode) == Raise(self, "TypeError")

is_addr_breakpoint(dbg, address) == PyIn(PyInt(address), dbg.breakpoints)

should_halt(dbg, self) ==
  is_addr_breakpoint(dbg, self.registers.pc) \/ dbg.halt

\* add_breakpoint without its membership test.
add_breakpoint_again(dbg, address) ==
  [dbg EXCEPT !.breakpoints = Append(@, PyInt(address))]

add_breakpoint(dbg, address) ==
  IF ~PyIn(PyInt(address), dbg.breakpoints)
  THEN [dbg EXCEPT !.breakpoints = Append(@, PyInt(address))]
  ELSE dbg

\* debug_print changes nothing; this is the exception it ends in.
debug_print(command_array) ==
  IF Len(command_array) < 2 THEN "IndexError"
  ELSE LET arg == command_array[2]
       IN  IF StartsWith(arg, <<"0", "x">>)
           THEN IF ~IsHex(arg) THEN "ValueError"
                ELSE IF ~IndexOk(HexAddr(arg) + 1, MEMORY_SIZE)
                THEN "IndexError"
                ELSE "none"
           ELSE IF StartsWith(arg, <<"v">>)
           THEN IF ~IsHex(Tail(arg)) THEN "ValueError"
                ELSE IF ~IndexOk(HexValue(HexDigits(Tail(arg))), NUM_REGISTERS)
                THEN "IndexError"
                ELSE "none"
           ELSE "none"

\* What parse_input leaves: the debugger, its return value, the exception
\* it raised, and whether it called sys.exit.
Parsed(dbg, should_continue, e, exit) ==
  [debugger |-> dbg, should_continue |-> should_continue, exc |-> e,
   exit |-> exit]

parse_input(dbg, command_array) ==
  LET command == command_array[1]
  IN  IF command = <<"b">>
      THEN IF Len(command_array) < 2 THEN Parsed(dbg, TRUE, "IndexError", FALSE)
           ELSE IF ~IsHex(command_array[2])
           THEN Parsed(dbg, TRUE, "ValueError", FALSE)
           ELSE Parsed(add_breakpoint(dbg, HexAddr(command_array[2])), FALSE,
                       "none", FALSE)
      ELSE IF command = <<"d">>
      THEN IF Len(command_array) < 2 THEN Parsed(dbg, TRUE, "IndexError", FALSE)
           ELSE IF PyIn(PyStr(command_array[2]), dbg.breakpoints)
           THEN IF ~IsHex(command_array[2])
                  \/ ~PyIn(PyInt(HexAddr(command_array[2])), dbg.breakpoints)
                THEN Parsed(dbg, TRUE, "ValueError", FALSE)
                ELSE Parsed([dbg EXCEPT !.breakpoints =
                               PyRemove(@, PyInt(HexAddr(command_array[2])))],
                            FALSE, "none", FALSE)
           ELSE Parsed(dbg, FALSE, "none", FALSE)
      ELSE IF command \in {<<"s">>, <<"n">>}
      THEN Parsed([dbg EXCEPT !.halt = TRUE], TRUE, "none", FALSE)
      ELSE IF command = <<"p">>
      THEN Parsed(dbg, FALSE, debug_print(command_array), FALSE)
      ELSE IF command = <<"c">>
      THEN Parsed(dbg, TRUE, "none", FALSE)
      ELSE IF command = <<"q">>
      THEN Parsed(dbg, TRUE, "none", TRUE)
      ELSE Parsed(dbg, TRUE, "none", FALSE)

\* The lines the operator types, after format_string and split: the empty
\* line, breakpoints set and deleted at the first and the third instruction
\* of the ROM, with and without the prefix 0x, the other commands, a command
\* without its argument, an argument that is no number, and two lines that
\* are no commands, and a breakpoint at an address of more than 16 bits.
Lines ==
  {<< <<>> >>,
   << <<"b">>, <<"2", "0", "0">> >>, << <<"b">>, <<"0", "x", "2", "0", "4">> >>,
   << <<"d">>, <<"2", "0", "0">> >>, << <<"d">>, <<"0", "x", "2", "0", "4">> >>,
   << <<"s">> >>, << <<"c">> >>, << <<"q">> >>,
   << <<"p">>, <<"p", "c">> >>, << <<"p">>, <<"0", "x", "f", "f", "f">> >>,
   << <<"b">> >>, << <<"b">>, <<"p", "c">> >>,
   << <<"n">> >>, << <<"x">>, <<"2", "0", "0">> >>,
   << <<"b">>, <<"1", "0", "2", "0", "2">> >>}

\* debugger.run() in main_loop, up to the prompt.
debugger_run ==
  /\ Running
  /\ loop = "debugger_run"
  /\ LET printed == IF get_opcode_raises(Self) THEN Raise(Self, "IndexError")
                    ELSE print_disassembly(Self, get_opcode(Self))
         halt    == should_halt(debugger, Self)
     IN  IF ~Ok(printed)
         THEN /\ exc' = printed.exc
              /\ UNCHANGED <<loop, debugger>>
         ELSE /\ UNCHANGED exc
              /\ debugger' = [debugger EXCEPT !.halt = FALSE]
              /\ loop' = IF halt THEN "prompt" ELSE "emulate_cyle"
  /\ UNCHANGED <<memory, registers, stack, timers, display, pos,
                 keys_pressed, last_opcode, cycles, now, clock_ticks,
                 timer_ticks, cycle_gap, resumed>>

\* One turn of the loop of run(): get_input until it accepts a line,
\* parse_input, last_input.  get_input turns down a line that is no command
\* and asks again.
debugger_command ==
  /\ Running
  /\ loop = "prompt"
  /\ \E line \in Lines :
       LET reuse    == line = << <<>> >> /\ debugger.last_input # <<>>
           accepted == reuse \/ line[1] \in valid_commands
           command_array == IF reuse THEN debugger.last_input ELSE line
           parsed   == parse_input(debugger, command_array)
       IN  IF ~accepted
           THEN /\ resumed' = [resumed EXCEPT !.line = line]
                /\ UNCHANGED <<debugger, exc, pos, loop>>
           ELSE IF parsed.exc # "none"
           THEN /\ exc' = parsed.exc
                /\ debugger' = parsed.debugger
                /\ resumed' = [resumed EXCEPT !.line = command_array]
                /\ UNCHANGED <<pos, loop>>
           ELSE IF parsed.exit
           THEN /\ pos' = "exited"
                /\ debugger' = parsed.debugger
                /\ resumed' = [resumed EXCEPT !.line = command_array]
                /\ UNCHANGED <<exc, loop>>
           ELSE /\ debugger' = [parsed.debugger EXCEPT
                                  !.last_input = command_array]
                /\ loop' = IF parsed.should_continue THEN "emulate_cyle"
                           ELSE "prompt"
                /\ resumed' = IF parsed.should_continue
                              THEN [command |-> command_array[1][1],
                                    cycles |-> cycles,
                                    line |-> command_array]
                              ELSE [resumed EXCEPT !.line = command_array]
                /\ UNCHANGED <<exc, pos>>
  /\ UNCHANGED <<memory, registers, stack, timers, display, keys_pressed,
                 last_opcode, cycles, now, clock_ticks, timer_ticks,
                 cycle_gap>>

\* A jump to itself, and a call of the third instruction.
RomsDebug ==
  RomsTimers
    \cup {<<OpNNN(1, START_ADDR)>>,
          <<OpNNN(2, START_ADDR + 4), OpKK(6, 0, 1), OpKK(6, 1, 2)>>}

\* main_loop with DEBUG set in config.py.
InitDebug ==
  /\ Launched({RomBytes(ops) : ops \in RomsDebug})
  /\ now = 0
  /\ clock_ticks = 0
  /\ timer_ticks = 0
  /\ loop = "init_clocks"
  /\ debugger = Chip8Debugger
  /\ cycle_gap = -1
  /\ resumed = [command |-> "", cycles |-> 0, line |-> <<>>]

NextDebug ==
  \/ time_passes
  \/ init_clocks
  \/ handle_pygame_events
  \/ debugger_run

DebugSpec == InitDebug /\ [][NextDebug]_vars

\* The loop of run() on its own: the debugger at its prompt before the
\* first instruction, as lines 33 to 36 of run() leave it, and main_loop
\* from there on.
InitPrompt ==
  /\ Launched({RomBytes(ops) : ops \in RomsDebug})
  /\ now = 0
  /\ clock_ticks = 0
  /\ timer_ticks = 0
  /\ loop = "prompt"
  /\ debugger = [Chip8Debugger EXCEPT !.halt = FALSE]
  /\ cycle_gap = -1
  /\ resumed = [command |-> "", cycles |-> 0, line |-> <<>>]

NextPrompt ==
  \/ debugger_command
  \/ main_loop_emulate_cyle
  \/ update_timers
  \/ cpu_clock_delay
  \/ handle_pygame_events
  \/ debugger_run

PromptSpec == InitPrompt /\ [][NextPrompt]_vars

(***************************************************************************)
(* Properties.  They are stated on the steps of the machine: in a step,    *)
(* the unprimed variables are the machine before the cycle and the primed  *)
(* ones the machine after it.                                              *)
(***************************************************************************)
\* The instruction the cycle of this step executes.
CurOp == get_opcode_nibble_dict(fetch_opcode(Self))

Decodes == DecodeOk(fetch_opcode(Self))

\* The step begins a cycle.
CycleBegins == cycles' = cycles + 1

\* The step ends a cycle that raised nothing: a whole cycle, or the end of
\* the wait of Fx0A.
CycleCompletes ==
  /\ exc' = "none"
  /\ pos' = "run"
  /\ \/ pos = "run" /\ CycleBegins
     \/ pos = "wait_key"

Vx == registers.v[CurOp.second_nibble]

Vy == registers.v[CurOp.third_nibble]

IsJump == CurOp.first_nibble \in {1, 11}

IsCall == CurOp.first_nibble = 2

IsReturn == CurOp.first_nibble = 0 /\ CurOp.last_byte = 238

\* The instruction is a conditional skip whose condition holds.
SkipTaken ==
  \/ CurOp.first_nibble = 3 /\ Vx = CurOp.last_byte
  \/ CurOp.first_nibble = 4 /\ Vx # CurOp.last_byte
  \/ CurOp.first_nibble = 5 /\ Vx = Vy
  \/ CurOp.first_nibble = 9 /\ Vx # Vy
  \/ /\ CurOp.first_nibble = 14
     /\ CurOp.last_byte = 158
     /\ Vx \in 0..15
     /\ KEY_MAPPINGS[Vx] \in keys_pressed
  \/ /\ CurOp.first_nibble = 14
     /\ CurOp.last_byte = 161
     /\ Vx \in 0..15
     /\ KEY_MAPPINGS[Vx] \notin keys_pressed

\* The secondary key of the instruction has no registered handler.
UnknownSecondary ==
  \/ CurOp.first_nibble = 0 /\ CurOp.last_byte \notin opcode_0x0_last_byte_lookup
  \/ CurOp.first_nibble = 8
       /\ CurOp.fourth_nibble \notin opcode_0x8_fourth_nibble_lookup
  \/ CurOp.first_nibble = 14 /\ CurOp.last_byte \notin opcode_0xE_last_byte_lookup
  \/ CurOp.first_nibble = 15 /\ CurOp.last_byte \notin opcode_0xF_last_byte_lookup

\* The step is a completed cycle of 8xyk.
AluStep(k) ==
  /\ CycleCompletes
  /\ Decodes
  /\ CurOp.first_nibble = 8
  /\ CurOp.fourth_nibble = k

StackAt(st, k) == st[ListPos(k, STACK_SIZE)]

(* C1: PC starts at 0x200, and a completed cycle of an instruction that is
   not a jump, a call, a return or a taken conditional skip leaves PC
   exactly 2 greater than before the cycle. *)
C1_PcAdvance ==
  /\ [](cycles = 0 => registers.pc = START_ADDR)
  /\ [][CycleCompletes /\ Decodes
          /\ ~IsJump /\ ~IsCall /\ ~IsReturn /\ ~SkipTaken
        => registers'.pc = registers.pc + 2]_vars

\* 7xFF has run as the third instruction of a ROM and PC is past it.
C1_Witness ==
  /\ exc = "none"
  /\ pos = "run"
  /\ last_opcode = OpKK(7, 1, 255)
  /\ registers.v[1] = 254
  /\ registers.pc = START_ADDR + 6

(* C2: a cycle whose opcode has a secondary key with no registered handler
   (00kk, Exkk or Fxkk by the last byte, 8xyk by the fourth nibble) ends
   with InvalidLookup, and memory, the registers with PC and SP, the stack,
   the timers and the display are as before the cycle. *)
C2_UnknownOpcode ==
  [][CycleBegins /\ Decodes /\ UnknownSecondary
     => /\ exc' = "InvalidLookup"
        /\ UNCHANGED <<memory, registers, stack, timers, display>>]_vars

\* The unregistered 8018 was fetched after two loads and raised.
C2_Witness ==
  /\ exc = "InvalidLookup"
  /\ last_opcode = Op(8, 0, 1, 8)
  /\ registers.v[0] = 255
  /\ registers.pc = START_ADDR + 4

(* C3: a call 2nnn at PC = p with SP = s < 15 leaves SP = s + 1,
   stack[s + 1] = p and PC = nnn, and succeeds for s in 0..14; a return with
   SP = s + 1, s in 0..14, succeeds, puts stack[s + 1] + 2 into PC, zeroes
   stack[s + 1] and leaves SP = s; and no step changes stack[k] other than
   a call that leaves SP = k or a return that finds SP = k, so the slot the
   matching return pops still holds p and execution resumes at p + 2. *)
C3_CallReturn ==
  [][/\ CycleCompletes /\ Decodes /\ IsCall /\ registers.sp < 15
        => /\ registers'.sp = registers.sp + 1
           /\ StackAt(stack', registers.sp + 1) = registers.pc
           /\ registers'.pc = CurOp.last_three_bits
     /\ CycleCompletes /\ Decodes /\ IsReturn /\ registers.sp \in 1..15
        => /\ registers'.pc = stack[registers.sp] + 2
           /\ stack'[registers.sp] = 0
           /\ registers'.sp = registers.sp - 1
     /\ /\ CycleBegins /\ Decodes
        /\ \/ IsCall /\ registers.sp \in 0..14
           \/ IsReturn /\ registers.sp \in 1..15
        => exc' = "none"
     /\ \A k \in 0..(STACK_SIZE - 1) :
          stack'[k] # stack[k]
          => /\ Decodes
             /\ \/ IsCall /\ IndexOk(registers.sp + 1, STACK_SIZE)
                          /\ ListPos(registers.sp + 1, STACK_SIZE) = k
                \/ IsReturn /\ IndexOk(registers.sp, STACK_SIZE)
                            /\ ListPos(registers.sp, STACK_SIZE) = k]_vars

\* After 15 nested calls, the return at 0x220 has popped slot 15 and PC is
\* at the instruction after the fifteenth call.
C3_Witness ==
  /\ exc = "none"
  /\ last_opcode = 238
  /\ cycles = 17
  /\ registers.sp = 14
  /\ stack[15] = 0
  /\ registers.pc = START_ADDR + 30

(* C4: a completed 8xy4 with x # 0xF leaves Vx = (Vx + Vy) mod 256 and
   VF = 1 if Vx + Vy > 255, else VF = 0. *)
C4_AddRegs ==
  [][AluStep(4) /\ CurOp.second_nibble # 15
     => /\ registers'.v[CurOp.second_nibble] = (Vx + Vy) % 256
        /\ registers'.v[15] = (IF Vx + Vy > 255 THEN 1 ELSE 0)]_vars

\* 128 + 128 has wrapped to 0 with the carry set.
C4_Witness ==
  /\ exc = "none"
  /\ last_opcode = Op(8, 0, 1, 4)
  /\ registers.v[0] = 0
  /\ registers.v[1] = 128
  /\ registers.v[15] = 1

(* C5, as stated: 8xy4 with Vx = 0xFF and Vy = 0xAB leaves the result
   register 0x0A with VF = 1, and with Vx = 0x0F and Vy = 0xAB leaves it
   0xBA with VF = 0. *)
C5_AsStated ==
  [][AluStep(4) /\ CurOp.second_nibble # 15 /\ Vy = 171
     => /\ Vx = 255 => registers'.v[CurOp.second_nibble] = 10
                       /\ registers'.v[15] = 1
        /\ Vx = 15 => registers'.v[CurOp.second_nibble] = 186
                      /\ registers'.v[15] = 0]_vars

(* C5, amended: 8xy4 with x # 0xF, Vx = 0xFF and Vy = 0xAB leaves Vx = 0xAA
   with VF = 1, and with Vx = 0x0F and Vy = 0xAB leaves Vx = 0xBA with
   VF = 0. *)
C5_AddExample ==
  [][AluStep(4) /\ CurOp.second_nibble # 15 /\ Vy = 171
     => /\ Vx = 255 => registers'.v[CurOp.second_nibble] = 170
                       /\ registers'.v[15] = 1
        /\ Vx = 15 => registers'.v[CurOp.second_nibble] = 186
                      /\ registers'.v[15] = 0]_vars

\* 0xFF + 0xAB has run on V0 and V1.
C5_Witness ==
  /\ exc = "none"
  /\ last_opcode = Op(8, 0, 1, 4)
  /\ registers.v[0] = 170
  /\ registers.v[1] = 171
  /\ registers.v[15] = 1

(* C6: a completed 8xy5 with x # 0xF leaves Vx = (Vx - Vy) mod 256 with
   VF = 1 if Vx >= Vy, else 0; a completed 8xy7 with x # 0xF leaves
   Vx = (Vy - Vx) mod 256 with VF = 1 if Vy >= Vx, else 0. *)
C6_SubBorrow ==
  [][/\ AluStep(5) /\ CurOp.second_nibble # 15
        => /\ registers'.v[CurOp.second_nibble] = (Vx - Vy) % 256
           /\ registers'.v[15] = (IF Vx >= Vy THEN 1 ELSE 0)
     /\ AluStep(7) /\ CurOp.second_nibble # 15
        => /\ registers'.v[CurOp.second_nibble] = (Vy - Vx) % 256
           /\ registers'.v[15] = (IF Vy >= Vx THEN 1 ELSE 0)]_vars

(* C7: a completed 8xy6 with x # 0xF leaves VF = bit 0 of Vx and
   Vx = Vx >> 1; a completed 8xyE with x # 0xF leaves VF = bit 7 of Vx and
   Vx = (Vx << 1) mod 256. *)
C7_Shifts ==
  [][/\ AluStep(6) /\ CurOp.second_nibble # 15
        => /\ registers'.v[15] = Vx % 2
           /\ registers'.v[CurOp.second_nibble] = Vx \div 2
     /\ AluStep(14) /\ CurOp.second_nibble # 15
        => /\ registers'.v[15] = (Vx \div 128) % 2
           /\ registers'.v[CurOp.second_nibble] = (2 * Vx) % 256]_vars

\* 0xFF has been shifted left in V0: 0xFE, with bit 7 in VF.
C7_Witness ==
  /\ exc = "none"
  /\ last_opcode = Op(8, 0, 1, 14)
  /\ registers.v[0] = 254
  /\ registers.v[15] = 1

(* C8: a completed cycle of 1nnn or 2nnn leaves PC = nnn. *)
C8_JumpTarget ==
  [][CycleCompletes /\ Decodes /\ CurOp.first_nibble \in {1, 2}
     => registers'.pc = CurOp.last_three_bits]_vars

\* A call to 0x000 has run at the head of the ROM: the handler stored -2
\* and the advance made it 0.
C8_Witness ==
  /\ exc = "none"
  /\ last_opcode = OpNNN(2, 0)
  /\ registers.pc = 0
  /\ registers.sp = 1
  /\ stack[1] = START_ADDR + 2

(* C9: a completed 3xkk, 4xkk, 5xy0 or 9xy0 leaves PC = PC + 4 when its
   condition (Vx = kk, Vx # kk, Vx = Vy, Vx # Vy) holds and PC + 2 when it
   does not, and changes no V register, I, SP, memory cell, timer or stack
   entry. *)
C9_Skips ==
  [][/\ CycleCompletes
     /\ Decodes
     /\ \/ CurOp.first_nibble \in {3, 4}
        \/ CurOp.first_nibble \in {5, 9} /\ CurOp.fourth_nibble = 0
     => /\ registers' = [registers EXCEPT
                           !.pc = @ + (IF SkipTaken THEN 4 ELSE 2)]
        /\ UNCHANGED <<memory, timers, stack>>]_vars

\* 9010 has skipped: V0 and V1 differ and PC is 4 past the instruction.
C9_Witness ==
  /\ exc = "none"
  /\ last_opcode = Op(9, 0, 1, 0)
  /\ registers.v[0] # registers.v[1]
  /\ registers.pc = START_ADDR + 8

(* C10: a completed cycle of Bnnn leaves PC = (nnn + V0) mod 65536. *)
C10_JumpOffset ==
  [][CycleCompletes /\ Decodes /\ CurOp.first_nibble = 11
     => registers'.pc = (CurOp.last_three_bits + registers.v[0]) % 65536]_vars

(***************************************************************************)
(* The display.  A logical pixel <<x, y>> is on when its SCALE x SCALE     *)
(* block of the surface has the main colour.                               *)
(***************************************************************************)
\* The step is a completed cycle of Dxyn.
DrawStep ==
  /\ CycleCompletes
  /\ Decodes
  /\ CurOp.first_nibble = 13

\* The byte at I + r, row r of the sprite.
SpriteRow(r) == MemAt(memory, registers.i + r)

\* The logical pixels the set bits of byte select for a row drawn at (x, y).
Selected(x, y, byte) ==
  { <<(x + i) % DISPLAY_WIDTH, y % DISPLAY_HEIGHT>> :
      i \in { j \in 0..7 : (byte \div (2 ^ (7 - j))) % 2 = 1 } }

\* The pixels of s with those of sel toggled.
Toggled(s, sel) == (s \ sel) \cup (sel \ s)

(* C11: a one-row Dxy1, which is draw_byte(Vx, Vy, memory[I]), toggles
   exactly the logical pixels the set bits of the byte select, keeps every
   other pixel, and reports an overwrite (VF = 1) iff one of the selected
   pixels was on before. *)
C11_PixelXor ==
  [][DrawStep /\ CurOp.fourth_nibble = 1
     => LET sel == Selected(Vx, Vy, SpriteRow(0))
        IN  /\ display'.surface = Toggled(display.surface, sel)
            /\ registers'.v[15] =
                 (IF sel \cap display.surface # {} THEN 1 ELSE 0)]_vars

\* The pixels row r of the sprite of this step addresses.
RowPixels(r) == Selected(Vx, Vy + r, SpriteRow(r))

(* C12: Dxyn addresses, for row r < n and set bit i of memory[I + r],
   column (Vx + i) mod 64 of row (Vy + r) mod 32, so it changes no other
   pixel; and one row 0xFF drawn at x = 60 on a blank framebuffer turns on
   exactly columns 60..63 and 0..3 of its row and leaves VF = 0. *)
C12_SpriteWrap ==
  [][DrawStep
     => /\ Toggled(display.surface, display'.surface)
             \subseteq UNION { RowPixels(r) : r \in 0..(CurOp.fourth_nibble - 1) }
        /\ /\ CurOp.fourth_nibble = 1
           /\ SpriteRow(0) = 255
           /\ Vx = 60
           /\ display.surface = {}
           => /\ display'.surface =
                   { <<c, Vy % DISPLAY_HEIGHT>> : c \in (60..63) \cup (0..3) }
              /\ registers'.v[15] = 0]_vars

\* The display before row r of the sprite of this step is drawn.
RECURSIVE DisplayBeforeRow(_)
DisplayBeforeRow(r) ==
  IF r = 0 THEN display
  ELSE draw_byte(DisplayBeforeRow(r - 1), Vx, Vy + (r - 1),
                 SpriteRow(r - 1)).display

\* What draw_byte returns for row r of the sprite of this step.
RowReport(r) == draw_byte(DisplayBeforeRow(r), Vx, Vy + r, SpriteRow(r)).ret

(* C13: after Dxyn, VF = 1 iff at least one of the n rows reported an
   overwrite, and VF = 0 otherwise, n = 0 included. *)
C13_CollisionFlag ==
  [][DrawStep
     => registers'.v[15] =
          (IF \E r \in 0..(CurOp.fourth_nibble - 1) : RowReport(r)
           THEN 1 ELSE 0)]_vars

\* D012 has drawn the rows 0xFF and 0x00 at (0, 0) on a blank display: the
\* first row reported an overwrite, the second none, and VF is 1.
C13_Witness ==
  /\ exc = "none"
  /\ last_opcode = Op(13, 0, 1, 2)
  /\ cycles = 4
  /\ registers.i = SpriteAddr
  /\ registers.v[0] = 0
  /\ registers.v[1] = 0
  /\ registers.v[15] = 1
  /\ display.surface = {<<0, 0>>}

(* C14: a completed Fx29 leaves I = FONT_ADDR_START + 5 * Vx. *)
C14_FontSprite ==
  [][/\ CycleCompletes
     /\ Decodes
     /\ CurOp.first_nibble = 15
     /\ CurOp.last_byte = 41
     => registers'.i = FONT_ADDR_START + 5 * Vx]_vars

(* C15: when Fx0A completes, Vx holds the logical index, a value in 0..15,
   of a key of KEY_MAPPINGS. *)
C15_WaitKeyIndex ==
  [][pos = "wait_key" /\ pos' = "run" /\ Decodes
     => registers'.v[CurOp.second_nibble] \in DOMAIN KEY_MAPPINGS]_vars

(* C16: while Fx0A waits, an event either leaves PC, the registers,
   memory, the stack, the timers and the display as they are and the wait
   going on (or, a quit, ends the program with the machine as it is), or is
   the key-down of a mapped key, which ends the wait with that key stored
   and PC advanced by 2 and nothing else changed; and when such a key-down
   (or a quit) is eventually delivered, the wait ends. *)
C16_WaitBlocks ==
  /\ [][pos = "wait_key"
        => \/ /\ pos' \in {"wait_key", "exited"}
              /\ UNCHANGED <<memory, registers, stack, timers, display, exc>>
           \/ /\ pos' = "run"
              /\ exc' = "none"
              /\ \E key \in KeyCodes :
                   registers' = [registers EXCEPT
                                   !.v[CurOp.second_nibble] = key,
                                   !.pc = @ + 2]
              /\ UNCHANGED <<memory, stack, timers, display>>]_vars
  /\ (pos = "wait_key") ~> (pos # "wait_key")

\* F00A has completed on the key 'x': the key is in V0 and PC is past the
\* instruction.
C16_Witness ==
  /\ pos = "run"
  /\ exc = "none"
  /\ last_opcode = OpKK(15, 0, 10)
  /\ registers.v[0] = 120
  /\ registers.pc = START_ADDR + 4

\* The machine after the step.
SelfNext ==
  [memory |-> memory', registers |-> registers', stack |-> stack',
   timers |-> timers', display |-> display', exc |-> exc']

\* The step is a completed cycle of Fxkk.
FStep(kk) ==
  /\ CycleCompletes
  /\ Decodes
  /\ CurOp.first_nibble = 15
  /\ CurOp.last_byte = kk

\* Register files left by what runs between a store and a load.
Clobbers ==
  {[r \in 0..(NUM_REGISTERS - 1) |-> 0], [r \in 0..(NUM_REGISTERS - 1) |-> 255],
   [r \in 0..(NUM_REGISTERS - 1) |-> r]}

(* C17: when Fx55 has stored V0..Vx at I, then, whatever the registers V
   hold afterwards, Fx65 with the same x and I succeeds and leaves V0..Vx
   as they were before the store; neither instruction changes I. *)
C17_StoreLoad ==
  [][/\ FStep(85)
        => /\ registers'.i = registers.i
           /\ \A w \in Clobbers \cup {registers.v} :
                LET after == ld_regs_at_i([SelfNext EXCEPT !.registers.v = w],
                                          CurOp)
                IN  /\ Ok(after)
                    /\ after.registers.i = registers.i
                    /\ \A k \in 0..CurOp.second_nibble :
                         after.registers.v[k] = registers.v[k]
     /\ FStep(101) => registers'.i = registers.i
     /\ /\ CycleBegins /\ Decodes
        /\ CurOp.first_nibble = 15
        /\ CurOp.last_byte \in {85, 101}
        /\ registers.i + CurOp.second_nibble <= MEMORY_SIZE - 1
        => exc' = "none"]_vars

\* V0 = 0xAB and V1 = 0x25 were stored at 0x300, overwritten with 99 and 98,
\* and loaded back by F165.
C17_Witness ==
  /\ exc = "none"
  /\ last_opcode = OpKK(15, 1, 101)
  /\ cycles = 7
  /\ registers.i = 768
  /\ registers.v[0] = 171
  /\ registers.v[1] = 37

(* C18: Fx33 with I <= 4093 succeeds, and a completed Fx33 writes Vx div 100 to memory[I], (Vx div 10) mod 10
   to memory[I + 1] and Vx mod 10 to memory[I + 2], so that
   100 * memory[I] + 10 * memory[I + 1] + memory[I + 2] = Vx, and changes no
   other memory cell, no register V, nor I, SP, the stack or the timers. *)
C18_Bcd ==
  [][/\ /\ CycleBegins /\ Decodes
        /\ CurOp.first_nibble = 15
        /\ CurOp.last_byte = 51
        /\ registers.i <= MEMORY_SIZE - 3
        => exc' = "none"
     /\ FStep(51)
     => LET i == registers.i
        IN  /\ MemAt(memory', i) = Vx \div 100
            /\ MemAt(memory', i + 1) = (Vx \div 10) % 10
            /\ MemAt(memory', i + 2) = Vx % 10
            /\ 100 * MemAt(memory', i) + 10 * MemAt(memory', i + 1)
                 + MemAt(memory', i + 2) = Vx
            /\ \A a \in (DOMAIN memory \cup DOMAIN memory') \ {i, i + 1, i + 2} :
                 MemAt(memory', a) = MemAt(memory, a)
            /\ registers' = [registers EXCEPT !.pc = @ + 2]
            /\ UNCHANGED <<stack, timers, display>>]_vars

\* 0xFF has been decomposed at 0x300: 2, 5, 5.
C18_Witness ==
  /\ exc = "none"
  /\ last_opcode = OpKK(15, 0, 51)
  /\ registers.v[0] = 255
  /\ registers.i = 768
  /\ MemAt(memory, 768) = 2
  /\ MemAt(memory, 769) = 5
  /\ MemAt(memory, 770) = 5

\* The step is a cycle of 00E0 on a created display.
ClearStep ==
  /\ CycleBegins
  /\ Decodes
  /\ CurOp.first_nibble = 0
  /\ CurOp.last_byte = 224
  /\ display.present

(* C19: 00E0 raises nothing and turns every pixel of the framebuffer off,
   whatever it held, and a second 00E0 right after it raises nothing and
   leaves the same framebuffer. *)
C19_ClearScreen ==
  [][ClearStep
     => /\ exc' = "none"
        /\ display'.surface = {}
        /\ Ok(clear_screen(SelfNext))
        /\ clear_screen(SelfNext).display = display']_vars

\* The glyph "0" was drawn at (20, 2) and the screen cleared twice.
C19_Witness ==
  /\ exc = "none"
  /\ last_opcode = Op(0, 0, 14, 0)
  /\ cycles = 6
  /\ registers.v[0] = 20
  /\ registers.v[1] = 2
  /\ registers.pc = START_ADDR + 12
  /\ display.surface = {}

(* C20: load_memory(start, data) raises DataTooLarge when
   Len(data) > 4096 - start and then leaves memory as it was; otherwise it
   raises nothing, memory[start + i] = data[i] for every i, and every other
   byte is unchanged; a ROM of 4096 - 0x200 bytes is accepted at 0x200 and
   one of a byte more is rejected.  Checked for a call on the memory of
   every state in which no exception is propagating. *)
C20_LoadMemory ==
  exc = "none"
  => /\ \A start_addr \in LoadStarts, data \in LoadDatas :
          LET r       == load_memory(Self, start_addr, data)
              written == start_addr..(start_addr + Len(data) - 1)
          IN  IF Len(data) > 4096 - start_addr
              THEN r.exc = "DataTooLarge" /\ r.memory = memory
              ELSE /\ r.exc = "none"
                   /\ \A a \in written :
                        MemAt(r.memory, a) = data[a - start_addr + 1]
                   /\ \A a \in (DOMAIN memory \cup DOMAIN r.memory) \ written :
                        MemAt(r.memory, a) = MemAt(memory, a)
     /\ load_memory(Self, START_ADDR, FullRom).exc = "none"
     /\ Len(FullRom) = 4096 - 512
     /\ load_memory(Self, START_ADDR, Append(FullRom, 1)).exc = "DataTooLarge"

\* The ROM of 4096 - 0x200 bytes has been loaded at 0x200: its first byte is
\* at 0x200, its last in the last cell, and the font is still in place.
C20_Witness ==
  /\ pos = "loaded"
  /\ exc = "none"
  /\ MemAt(memory, START_ADDR) = 255
  /\ MemAt(memory, MEMORY_SIZE - 1) = 255
  /\ MemAt(memory, 0) = 240

(***************************************************************************)
(* The font table.                                                         *)
(***************************************************************************)
\* The cells load_fontset wrote.
FontCells == FONT_ADDR_START..(FONT_ADDR_START + Len(FONT_SET) - 1)

FontIntact(mem) ==
  \A a \in FontCells : MemAt(mem, a) = FONT_SET[a - FONT_ADDR_START + 1]

(* C21, as stated: in every state a program reaches, the cells of the font
   table hold the bytes written at initialization; no opcode overwrites
   them. *)
C21_FontImmutable == FontIntact(memory)

(* C21, amended: the font table is in place when the first cycle begins, and
   a step changes a cell of it only if it is a cycle of Fx33 or Fx55 begun
   with I inside the table (I < 0x50). *)
C21_FontWrites ==
  [][/\ cycles = 0 => FontIntact(memory)
     /\ (\E a \in FontCells : MemAt(memory', a) # MemAt(memory, a))
          => /\ CycleBegins
             /\ Decodes
             /\ CurOp.first_nibble = 15
             /\ CurOp.last_byte \in {51, 85}
             /\ registers.i \in FontCells]_vars

\* Fx33 on V0 = 255 with I = 0 has replaced the first rows of glyph "0" by
\* the digits 2, 5, 5.
C21_Witness ==
  /\ last_opcode = OpKK(15, 0, 51)
  /\ registers.i = 0
  /\ exc = "none"
  /\ MemAt(memory, 0) = 2
  /\ MemAt(memory, 1) = 5
  /\ MemAt(memory, 2) = 5
  /\ ~FontIntact(memory)

(***************************************************************************)
(* Errors.                                                                 *)
(***************************************************************************)
(* C22: a return begun with SP = 0 and a call begun with the stack full end
   in an error, and SP stays within 0..15 in every step. *)
C22_StackBounds ==
  [][/\ registers.sp' \in 0..(STACK_SIZE - 1)
     /\ CycleBegins /\ Decodes /\ IsReturn /\ registers.sp = 0
          => exc' # "none"
     /\ CycleBegins /\ Decodes /\ IsCall /\ registers.sp = STACK_SIZE - 1
          => exc' # "none"]_vars

(* C23: a cycle that ends in an error leaves PC, SP, the stack, the
   registers, the timers, memory and the framebuffer as they were. *)
C23_AllOrNothing ==
  [][CycleBegins /\ exc' # "none"
       => UNCHANGED <<memory, registers, stack, timers, display>>]_vars

(***************************************************************************)
(* The timers and the two gates of main_loop.                              *)
(***************************************************************************)
\* The step is update_timers with its period elapsed: it resets the gate's
\* reference tick.
TimerDecrement == loop = "update_timers" /\ timer_ticks' # timer_ticks

Lowered(t) == IF t > 0 THEN t - 1 ELSE 0

(* C24: the delay and sound timers are in 0..255 before and after every
   step, and a timer decrement lowers each timer that is not 0 by exactly 1
   and leaves a timer that is 0 at 0, whatever the other timer holds. *)
C24_TimerBounds ==
  [][/\ timers.delay \in 0..255 /\ timers.sound \in 0..255
     /\ timers'.delay \in 0..255 /\ timers'.sound \in 0..255
     /\ TimerDecrement
          => /\ timers'.delay = Lowered(timers.delay)
             /\ timers'.sound = Lowered(timers.sound)]_vars

\* The delay timer, loaded with 3, has been decremented once, past a sound
\* timer that was loaded with 0 and is 0.
C24_Witness ==
  /\ loop = "cpu_clock_delay"
  /\ last_opcode = OpKK(15, 1, 24)
  /\ registers.v[0] = 3
  /\ registers.v[1] = 0
  /\ timer_ticks = now
  /\ timers = [delay |-> 2, sound |-> 0]

(* C25: an instruction is executed at least CLOCK_SPEED milliseconds after
   the instruction before it. *)
C25_CycleGate ==
  [][loop = "emulate_cyle" /\ CycleBegins /\ cycle_gap >= 0
       => cycle_gap >= CLOCK_SPEED]_vars

(* C26: no step taken while Fx0A is blocked changes the timers; outside the
   cycles of Fx15 and Fx18 the timers change only in update_timers, which
   lowers each of them by at most 1; and update_timers is reached only from
   the end of a cycle, so it runs once in an iteration of the loop. *)
C26_TimersCoupled ==
  [][/\ pos = "wait_key" => timers' = timers
     /\ timers' # timers /\ ~CycleBegins
          => /\ loop = "update_timers"
             /\ timers.delay - timers'.delay \in {0, 1}
             /\ timers.sound - timers'.sound \in {0, 1}
     /\ loop' = "update_timers" /\ loop # "update_timers"
          => /\ loop = "emulate_cyle"
             /\ pos' = "run"
             /\ CycleBegins \/ pos = "wait_key"]_vars

\* Fx0A is blocked, two timer periods have gone by since the timers' gate
\* last opened, and the timers are as Fx15 and Fx18 loaded them.
C26_Witness ==
  /\ pos = "wait_key"
  /\ last_opcode = OpKK(15, 2, 10)
  /\ now - timer_ticks >= 2 * TIMER_SPEED
  /\ timers = [delay |-> registers.v[0], sound |-> registers.v[1]]
  /\ timers = [delay |-> 255, sound |-> 255]

(***************************************************************************)
(* The debugger.                                                           *)
(***************************************************************************)
\* The step is a call of debugger.run().
DebuggerRuns ==
  /\ loop = "debugger_run"
  /\ <<loop, exc, debugger>>' # <<loop, exc, debugger>>

\* The addresses in the breakpoint set.
Breakpoints(dbg) ==
  {dbg.breakpoints[k].value : k \in 1..Len(dbg.breakpoints)}

(* C27: a call of debugger.run() before a cycle ends at the prompt, with no
   instruction executed, if PC is in the breakpoint set or the single-step
   flag is set, and otherwise goes on to the cycle without a prompt. *)
C27_HaltCondition ==
  [][DebuggerRuns
       => IF registers.pc \in Breakpoints(debugger) \/ debugger.halt
          THEN loop' = "prompt" /\ UNCHANGED cycles
          ELSE loop' = "emulate_cyle"]_vars

(* C28: once `s` has resumed the machine, no more than one instruction is
   executed, and the call of debugger.run() that follows it ends at the
   prompt, whatever PC is. *)
C28_SingleStep ==
  [][/\ resumed.command = "s" => cycles' <= resumed.cycles + 1
     /\ DebuggerRuns /\ resumed.command = "s"
          => /\ loop' = "prompt"
             /\ cycles = resumed.cycles + 1
             /\ UNCHANGED cycles]_vars

(* C29: once `c` has resumed the machine, a call of debugger.run() goes on
   to the cycle without a prompt if PC is not in the breakpoint set, and
   ends at the prompt, the instruction at PC not executed, if it is. *)
C29_Continue ==
  [][DebuggerRuns /\ resumed.command = "c"
       => IF registers.pc \in Breakpoints(debugger)
          THEN loop' = "prompt" /\ UNCHANGED <<cycles, registers>>
          ELSE loop' = "emulate_cyle" /\ UNCHANGED resumed]_vars

(* C30: the command `d <hex-addr>`, given at the prompt for an address in
   the breakpoint set, takes that address out of the set and leaves the
   other breakpoints in it. *)
C30_DeleteBreakpoint ==
  [][/\ loop = "prompt"
     /\ Len(debugger'.last_input) >= 2
     /\ debugger'.last_input[1] = <<"d">>
     /\ IsHex(debugger'.last_input[2])
     /\ HexAddr(debugger'.last_input[2]) \in Breakpoints(debugger)
     => Breakpoints(debugger')
          = Breakpoints(debugger) \ {HexAddr(debugger'.last_input[2])}]_vars

(* C31: the command `b <hex-addr>` leaves the address, modulo 2^16, in the
   breakpoint set; the set holds no address twice; and the set changes only
   in a `b` or `d` command at the prompt, so it is the same after the cycles
   that `s` and `c` resume. *)
C31_SetBreakpoint ==
  [][/\ /\ loop = "prompt"
        /\ Len(debugger'.last_input) >= 2
        /\ debugger'.last_input[1] = <<"b">>
        => /\ IsHex(debugger'.last_input[2])
           /\ HexValue(HexDigits(debugger'.last_input[2])) % 65536
                \in Breakpoints(debugger')
     /\ \A j, k \in 1..Len(debugger'.breakpoints) :
          PyEq(debugger'.breakpoints[j], debugger'.breakpoints[k]) => j = k
     /\ debugger'.breakpoints # debugger.breakpoints
          => /\ loop = "prompt"
             /\ debugger'.last_input[1] \in {<<"b">>, <<"d">>}]_vars

\* `b 10202`, `b 204` and `c` were typed, and the cycle `c` resumed is over.
C31_Witness ==
  /\ debugger.breakpoints = <<PyInt(514), PyInt(516)>>
  /\ debugger.last_input = << <<"c">> >>
  /\ resumed.command = "c"
  /\ cycles = resumed.cycles + 1
  /\ loop = "debugger_run"

\* The machine: what `p` may read.
machine == <<memory, registers, stack, timers, display>>

\* The step is the command get_input returned for the line typed at the
\* prompt, a command of this verb.
Typed(verb) ==
  /\ loop = "prompt"
  /\ resumed'.line # <<>>
  /\ resumed'.line[1] = verb

(* C32: the command `p <target>`, given at the prompt, raises nothing,
   leaves the machine and the breakpoint set as they were, executes no
   instruction and ends at the prompt. *)
C32_InspectionReadOnly ==
  [][Typed(<<"p">>) /\ Len(resumed'.line) >= 2
       => /\ exc' = "none"
          /\ UNCHANGED <<machine, cycles>>
          /\ debugger'.breakpoints = debugger.breakpoints
          /\ loop' = "prompt"
          /\ pos' = pos]_vars

(* C33: a line whose verb is no command, or a `b`, `d` or `p` without its
   operand, raises nothing, leaves the machine and the breakpoint set as
   they were, executes no instruction and ends at the prompt. *)
C33_MalformedRecoverable ==
  [][/\ loop = "prompt"
     /\ resumed'.line # <<>>
     /\ \/ resumed'.line[1] \notin valid_commands
        \/ /\ resumed'.line[1] \in {<<"b">>, <<"d">>, <<"p">>}
           /\ Len(resumed'.line) < 2
     => /\ exc' = "none"
        /\ UNCHANGED <<machine, cycles>>
        /\ debugger'.breakpoints = debugger.breakpoints
        /\ loop' = "prompt"
        /\ pos' = pos]_vars

(* C34: the first cycle of a machine as the constructor leaves it, with no
   ROM loaded and so the opcode 0x0000 at 0x200, completes and leaves
   PC = 0x202. *)
C34_FreshCycle ==
  [][/\ CycleBegins
     /\ cycles = 0
     /\ memory = Constructed.memory
     /\ registers = Constructed.registers
     /\ Word(fetch_opcode(Self)) = 0
     => /\ exc' = "none"
        /\ registers'.pc = START_ADDR + 2]_vars

(* C35: a completed 8xy4, 8xy5, 8xy6, 8xy7 or 8xyE with x = 0xF leaves the
   flag in VF: the carry of Vx + Vy, 1 or 0 as the subtraction's minuend is
   greater or less than its subtrahend (0 or 1 when they are equal), bit 0
   of Vx, bit 7 of Vx. *)
C35_FlagWins ==
  [][Decodes /\ CurOp.second_nibble = 15
     => /\ AluStep(4) => registers'.v[15] = (Vx + Vy) \div 256
        /\ AluStep(5) => /\ registers'.v[15] \in {0, 1}
                         /\ Vx > Vy => registers'.v[15] = 1
                         /\ Vx < Vy => registers'.v[15] = 0
        /\ AluStep(7) => /\ registers'.v[15] \in {0, 1}
                         /\ Vy > Vx => registers'.v[15] = 1
                         /\ Vy < Vx => registers'.v[15] = 0
        /\ AluStep(6) => registers'.v[15] = Vx % 2
        /\ AluStep(14) => registers'.v[15] = (Vx \div 128) % 2]_vars

(* C36: a call made with fewer than 16 calls pending, SP in 0..15, raises
   nothing, leaves SP one greater and the address of the call on the stack;
   a return made with SP in 1..16 raises nothing and leaves SP one less. *)
C36_StackCapacity ==
  [][CycleBegins /\ Decodes
     => /\ IsCall /\ registers.sp \in 0..(STACK_SIZE - 1)
          => /\ exc' = "none"
             /\ registers'.sp = registers.sp + 1
             /\ \E k \in DOMAIN stack' : stack'[k] = registers.pc
        /\ IsReturn /\ registers.sp \in 1..STACK_SIZE
          => /\ exc' = "none"
             /\ registers'.sp = registers.sp - 1]_vars

(* C37: a call of debugger.run() with PC in 0..4094 raises nothing on its
   way to the halt check, whatever the opcode at PC. *)
C37_RunNeverFails ==
  [][DebuggerRuns /\ registers.pc \in 0..(MEMORY_SIZE - 2)
       => exc' = "none"]_vars

(* C38: the first call of debugger.run(), before any instruction, ends at
   the prompt with the machine as it was, whether or not 0x200 is a
   breakpoint; and the first instruction is executed only after `s` or `c`
   has resumed the machine. *)
C38_InitialHalt ==
  [][/\ DebuggerRuns /\ cycles = 0 /\ resumed.command = ""
          => /\ loop' = "prompt"
             /\ exc' = "none"
             /\ UNCHANGED <<machine, cycles>>
     /\ CycleBegins /\ cycles = 0 /\ debugger.DEBUG
          => resumed.command \in {"s", "c"}]_vars

(* C39: in every state of a run each of V0..VF is an integer in 0..255, I
   is in 0..65535 and every memory cell is in 0..255. *)
C39_WidthInvariant ==
  /\ \A r \in 0..(NUM_REGISTERS - 1) : registers.v[r] \in 0..255
  /\ registers.i \in 0..65535
  /\ \A a \in DOMAIN memory : memory[a] \in 0..255

\* 7xFF has wrapped V15: 37 + 255 is 36 modulo 256.
C39_Witness ==
  /\ exc = "none"
  /\ last_opcode = OpKK(7, 15, 255)
  /\ registers.v[15] = 36
  /\ registers.i = 768

\* The program has reached a jump to itself: from here on it writes no
\* timer, waits for no key and raises nothing.
Spinning ==
  /\ Decodes
  /\ CurOp.first_nibble = 1
  /\ CurOp.last_three_bits = registers.pc

(* C40: once the program spins in a jump to itself, with main_loop going on
   and the clock advancing, both timers reach 0 unless the run is quit, and
   a timer that is 0 stays 0. *)
C40_TimerCountdown ==
  /\ Spinning ~> (pos = "exited" \/ timers = [delay |-> 0, sound |-> 0])
  /\ [][Spinning => /\ timers.delay = 0 => timers'.delay = 0
                    /\ timers.sound = 0 => timers'.sound = 0]_vars

\* The delay timer, loaded with 3, and the sound timer, loaded with 2, have
\* run down while the program spins.
C40_Witness ==
  /\ Spinning
  /\ registers.v[0] = 3
  /\ registers.v[1] = 2
  /\ timers = [delay |-> 0, sound |-> 0]
  /\ pos = "run"

====
